---- MODULE Spec2Model ----
(***************************************************************************)
(* A model of the concurrent fetch-clean-chunk pipeline of                 *)
(* src/processing.py (class DESYContentProcessor).                         *)
(*                                                                         *)
(* Texts are strings.  Positions inside the text operators are Python      *)
(* positions (0-based, half-open slices), so that every arithmetic         *)
(* expression of the source can be read off unchanged; At and Slice do the *)
(* translation to the 1-based sequences of TLA+.                           *)
(***************************************************************************)
EXTENDS Integers, Sequences, FiniteSets, TLC

(***************************************************************************)
(* Program constants and configuration.                                    *)
(***************************************************************************)
MIN_CHUNK_CHARS == 30

\* Constructor parameters chunk_size / chunk_overlap (defaults 1000 / 200,
\* main.py passes 500 / 75); the model runs the processor with small ones.
chunk_size == 40
chunk_overlap == 10

\* self.max_hashes (100000) and self.max_urls (10000), scaled down so that
\* the halving of the sets happens within the model.
max_hashes == 3
max_urls == 2

\* batch_size argument of process_urls_from_mapping.
batch_size == 2

Max(a, b) == IF a >= b THEN a ELSE b
Min(a, b) == IF a <= b THEN a ELSE b

(***************************************************************************)
(* Text primitives (Python str methods and the regular expressions used    *)
(* by the chunker).                                                        *)
(***************************************************************************)
WS == {" ", "\n"}
Terminators == {".", "!", "?"}

At(t, i) == SubSeq(t, i + 1, i + 1)

\* t[a:b] for 0 <= a
Slice(t, a, b) == IF Min(b, Len(t)) <= a THEN "" ELSE SubSeq(t, a + 1, Min(b, Len(t)))

\* c * n
RECURSIVE Rep(_, _)
Rep(c, n) == IF n <= 0 THEN "" ELSE IF n = 1 THEN c
             ELSE Rep(c, n \div 2) \o Rep(c, n - (n \div 2))

\* str.strip()
Strip(t) ==
    LET nonws == {i \in 1..Len(t) : SubSeq(t, i, i) \notin WS}
    IN  IF nonws = {} THEN ""
        ELSE SubSeq(t, CHOOSE i \in nonws : \A j \in nonws : i <= j,
                       CHOOSE i \in nonws : \A j \in nonws : i >= j)

\* re.sub(r'\s+', ' ', t) on t[lo:hi], given what precedes position lo: a
\* whitespace character that follows another one is dropped, any other
\* whitespace character becomes a space
RECURSIVE CollapseRange(_, _, _)
CollapseRange(t, lo, hi) ==
    IF lo >= hi THEN ""
    ELSE IF hi = lo + 1
    THEN IF At(t, lo) \notin WS THEN At(t, lo)
         ELSE IF lo > 0 /\ At(t, lo - 1) \in WS THEN "" ELSE " "
    ELSE CollapseRange(t, lo, (lo + hi) \div 2) \o CollapseRange(t, (lo + hi) \div 2, hi)

\* re.sub(r'\s+', ' ', t)
CollapseWs(t) == CollapseRange(t, 0, Len(t))

\* str.lower() on the model's alphabet
LowerChar(c) == IF c = "A" THEN "a" ELSE IF c = "B" THEN "b" ELSE IF c = "F" THEN "f"
                ELSE IF c = "H" THEN "h" ELSE IF c = "T" THEN "t"
                ELSE IF c = "D" THEN "d" ELSE IF c = "E" THEN "e"
                ELSE IF c = "G" THEN "g" ELSE IF c = "R" THEN "r" ELSE c
RECURSIVE Lower(_)
Lower(t) == IF t = "" THEN "" ELSE IF Len(t) = 1 THEN LowerChar(t)
            ELSE Lower(Slice(t, 0, Len(t) \div 2)) \o Lower(Slice(t, Len(t) \div 2, Len(t)))

\* str.rfind(' ', lo, hi): the highest position in [lo, hi) holding a space, or -1
RFindSpace(t, lo, hi) ==
    LET hits == {i \in lo..(Min(hi, Len(t)) - 1) : At(t, i) = " "}
    IN  IF hits = {} THEN -1 ELSE CHOOSE i \in hits : \A j \in hits : i >= j

\* str.find(' ', lo): the lowest position >= lo holding a space, or -1
FindSpace(t, lo) ==
    LET hits == {i \in lo..(Len(t) - 1) : At(t, i) = " "}
    IN  IF hits = {} THEN -1 ELSE CHOOSE i \in hits : \A j \in hits : i <= j

\* hashlib.md5(x).hexdigest(), collision-free
MD5(x) == [md5 |-> x]

(***************************************************************************)
(* create_chunks.split_text_by_size                                        *)
(***************************************************************************)
\* The end of the whitespace run that starts at position i of z
RECURSIVE WsRunEnd(_, _)
WsRunEnd(z, i) == IF i < Len(z) /\ At(z, i) \in WS THEN WsRunEnd(z, i + 1) ELSE i

\* re.match of sentence_pattern  [.!?]\s+ | [.!?]$ | \n\s*\n  at position i
\* of z: the position after the match, or -1
MatchEndAt(z, i) ==
    IF At(z, i) \in Terminators /\ i + 1 < Len(z) /\ At(z, i + 1) \in WS
    THEN WsRunEnd(z, i + 1)
    ELSE IF At(z, i) \in Terminators /\ i + 1 = Len(z)
    THEN i + 1
    ELSE IF At(z, i) = "\n"
    THEN LET nl == {j \in (i + 1)..(WsRunEnd(z, i + 1) - 1) : At(z, j) = "\n"}
         IN  IF nl = {} THEN -1 ELSE 1 + CHOOSE j \in nl : \A k \in nl : j >= k
    ELSE -1

\* list(sentence_pattern.finditer(z))[-1] as <<start, end>>, <<-1, -1>> when
\* there is no match; finditer scans left to right without overlap
RECURSIVE LastMatch(_, _, _)
LastMatch(z, i, last) ==
    IF i >= Len(z) THEN last
    ELSE LET e == MatchEndAt(z, i)
         IN  IF e # -1 THEN LastMatch(z, e, <<i, e>>) ELSE LastMatch(z, i + 1, last)

\* len(g) - len(g.lstrip('.!?'))
RECURSIVE LeadTerms(_)
LeadTerms(g) == IF g # "" /\ At(g, 0) \in Terminators THEN 1 + LeadTerms(Tail(g)) ELSE 0

SplitMinChunkSize(max_size, overlap_size) == Max(max_size \div 2, max_size - overlap_size)

\* lines 640-652: the end of the window that starts at start
WindowEnd(text, max_size, overlap_size, start) ==
    LET text_len == Len(text)
        end0 == Min(start + max_size, text_len)
        search_start == Max(end0 - ((3 * max_size) \div 10),
                            start + SplitMinChunkSize(max_size, overlap_size))
        search_zone == Slice(text, search_start, end0)
        m == LastMatch(search_zone, 0, <<-1, -1>>)
        group == Slice(search_zone, m[1], m[2])
        word_boundary == RFindSpace(text, search_start, end0)
    IN  IF end0 < text_len
        THEN IF m[1] # -1
             THEN (search_start + m[2]) - (Len(group) - LeadTerms(group))
             ELSE IF word_boundary > start THEN word_boundary ELSE end0
        ELSE end0

\* lines 658-663: the start of the next window
NextStart(text, max_size, overlap_size, start, end) ==
    LET ideal_next_start == end - overlap_size
        word_start == FindSpace(text, ideal_next_start)
    IN  IF ideal_next_start <= start
        THEN start + SplitMinChunkSize(max_size, overlap_size)
        ELSE IF word_start # -1 /\ word_start < end THEN word_start + 1
             ELSE ideal_next_start

\* the while loop of lines 639-664, from window start `start`
RECURSIVE SplitLoop(_, _, _, _, _)
SplitLoop(text, max_size, overlap_size, min_chars, start) ==
    IF ~(start < Len(text)) THEN << >>
    ELSE LET end == WindowEnd(text, max_size, overlap_size, start)
             chunk == Strip(Slice(text, start, end))
             out == IF Len(chunk) >= min_chars THEN <<chunk>> ELSE << >>
         IN  IF end >= Len(text) THEN out
             ELSE out \o SplitLoop(text, max_size, overlap_size, min_chars,
                                   NextStart(text, max_size, overlap_size, start, end))

split_text_by_size(cleaned_text, max_size, overlap_size, min_chars) ==
    IF Len(cleaned_text) <= max_size THEN <<cleaned_text>>
    ELSE SplitLoop(cleaned_text, max_size, overlap_size, min_chars, 0)

\* the windows <<start, end>> of the rounds of the while loop of lines
\* 639-664, from window start `start`
RECURSIVE SplitWindows(_, _, _, _)
SplitWindows(text, max_size, overlap_size, start) ==
    IF ~(start < Len(text)) THEN << >>
    ELSE LET end == WindowEnd(text, max_size, overlap_size, start)
         IN  <<<<start, end>>>> \o
             (IF end >= Len(text) THEN << >>
              ELSE SplitWindows(text, max_size, overlap_size,
                                NextStart(text, max_size, overlap_size, start, end)))

(***************************************************************************)
(* Bounded sets, page records, chunkers.                                   *)
(*                                                                         *)
(* A state-changing method is an operator from the value of the attribute  *)
(* it changes to the SET of values it can leave: list(set) enumerates a    *)
(* Python set of strings in an order that depends on the interpreter's     *)
(* hash seed, so which half of a full set survives  list(s)[max // 2:]  is *)
(* not determined by the program.                                          *)
(***************************************************************************)
\* set(list(S)[m // 2:])
HalvedSets(S, m) == {K \in SUBSET S : Cardinality(K) = Cardinality(S) - (m \div 2)}

add_to_processed_hashes(hashes, content_hash) ==
    IF Cardinality(hashes) >= max_hashes
    THEN {K \cup {content_hash} : K \in HalvedSets(hashes, max_hashes)}
    ELSE {hashes \cup {content_hash}}

add_to_processed_urls(urls, url) ==
    IF Cardinality(urls) >= max_urls
    THEN {K \cup {url} : K \in HalvedSets(urls, max_urls)}
    ELSE {urls \cup {url}}

\* {**f, **g}
Merge(f, g) == [k \in (DOMAIN f) \cup (DOMAIN g) |-> IF k \in DOMAIN g THEN g[k] ELSE f[k]]

\* len(content.split())
WordCount(t) ==
    Cardinality({i \in 0..(Len(t) - 1) : At(t, i) \notin WS /\ (i = 0 \/ At(t, i - 1) \in WS)})

track_page_character_count(counts, url, content, depth) ==
    IF Len(content) < MIN_CHUNK_CHARS THEN counts
    ELSE [u \in (DOMAIN counts) \cup {url} |->
            IF u = url
            THEN [url |-> url, character_count |-> Len(content),
                  word_count |-> WordCount(content), depth |-> depth]
            ELSE counts[u]]

\* clean_content on a text that holds no markup and none of the words of the
\* pattern catalogue: what is left of it is the whitespace normalisation of
\* lines 407 and 420
clean_content(text) == Strip(CollapseWs(text))

\* the characters of the model's alphabet that \w does not match
NonWord == WS \cup Terminators

\* \b at position i of t
WordBoundary(t, i) ==
    (i > 0 /\ At(t, i - 1) \notin NonWord) # (i < Len(t) /\ At(t, i) \notin NonWord)

\* a match at position i of t of  w1\s+w2\s+...wn\b  under re.IGNORECASE: the
\* position after the match, or -1
RECURSIVE PhraseEnd(_, _, _)
PhraseEnd(t, i, words) ==
    LET e == i + Len(Head(words))
    IN  IF Lower(Slice(t, i, e)) # Head(words) THEN -1
        ELSE IF Len(words) = 1 THEN (IF WordBoundary(t, e) THEN e ELSE -1)
        ELSE IF WsRunEnd(t, e) = e THEN -1
        ELSE PhraseEnd(t, WsRunEnd(t, e), Tail(words))

\* a match at position i of t of  \b(?:phrase1|phrase2|...)\b : the position
\* after the match of the first alternative that matches, or -1
PatternEnd(t, i, pattern) ==
    LET hits == {k \in DOMAIN pattern : PhraseEnd(t, i, pattern[k]) # -1}
    IN  IF ~WordBoundary(t, i) \/ hits = {} THEN -1
        ELSE PhraseEnd(t, i, pattern[CHOOSE k \in hits : \A j \in hits : k <= j])

\* pattern.sub('', t) from position i on: the matches are taken from left to
\* right, and the scan goes on after each match
RECURSIVE Sub(_, _, _)
Sub(pattern, t, i) ==
    IF i >= Len(t) THEN ""
    ELSE IF PatternEnd(t, i, pattern) # -1 THEN Sub(pattern, t, PatternEnd(t, i, pattern))
    ELSE At(t, i) \o Sub(pattern, t, i + 1)

\* lines 286-291
RECURSIVE apply_pattern_group(_, _)
apply_pattern_group(text, patterns) ==
    IF patterns = << >> THEN text
    ELSE apply_pattern_group(Sub(Head(patterns), text, 0), Tail(patterns))

\* The patterns of self.specialized_patterns (lines 133-153) and of
\* self.text_cleanup_patterns (lines 165-175) that can match a text written
\* with the letters of Back, to, Top, Home and Footer: \bFooter\b,
\* \bBack\s+to\s+Top\b and the alternative Home of line 171. Every other
\* pattern of the catalogue needs a letter, a digit or a mark outside these.
specialized_patterns == << << <<"footer">> >> >>

text_cleanup_patterns == << << <<"back", "to", "top">> >>, << <<"home">> >> >>

\* str.find(c, lo): the lowest position >= lo of t holding c, or -1
Find(t, c, lo) ==
    LET hits == {i \in lo..(Len(t) - 1) : At(t, i) = c}
    IN  IF hits = {} THEN -1 ELSE CHOOSE i \in hits : \A j \in hits : i <= j

\* a match at position i of t of  <[^>]*>.*?</[^>]+>  under re.DOTALL, which
\* is what the fifth pattern of self.low_priority_patterns (line 129) matches
\* when its optional attribute group matches nothing: an opening tag and all
\* that follows up to the first closing tag. The position after the match,
\* or -1
ElementEnd(t, i) ==
    LET open == Find(t, ">", i + 1)
        closers == {j \in (open + 1)..(Len(t) - 4) :
                      /\ At(t, j) = "<" /\ At(t, j + 1) = "/" /\ At(t, j + 2) # ">"
                      /\ Find(t, ">", j + 3) # -1}
    IN  IF At(t, i) # "<" \/ open = -1 \/ closers = {} THEN -1
        ELSE 1 + Find(t, ">", 3 + CHOOSE j \in closers : \A k \in closers : j <= k)

\* self.low_priority_patterns[4].sub('', t) from position i on
RECURSIVE ElementsRemoved(_, _)
ElementsRemoved(t, i) ==
    IF i >= Len(t) THEN ""
    ELSE IF ElementEnd(t, i) # -1 THEN ElementsRemoved(t, ElementEnd(t, i))
    ELSE At(t, i) \o ElementsRemoved(t, i + 1)

\* BeautifulSoup(t).get_text(separator=' ') from position i on, up to the
\* whitespace inside it: the text of t with a space for every tag
RECURSIVE GetText(_, _)
GetText(t, i) ==
    IF i >= Len(t) THEN ""
    ELSE IF At(t, i) = "<" /\ Find(t, ">", i + 1) # -1
    THEN " " \o GetText(t, Find(t, ">", i + 1) + 1)
    ELSE At(t, i) \o GetText(t, i + 1)

\* clean_content on a fragment made of text written with the letters above
\* and of <p> and <b> elements without attributes: BeautifulSoup finds no
\* main-content container and no element of the selector list, so
\* str(main_content) is the fragment; of the markup patterns only the one of
\* line 129 matches; lines 390-405 read the text of what is left when it
\* still holds a tag; lines 406-420 clean and normalise that text
CleanContent(text) ==
    IF text = "" THEN ""
    ELSE LET stripped == apply_pattern_group(ElementsRemoved(text, 0), specialized_patterns)
             read == IF Find(stripped, "<", 0) # -1 /\ Find(stripped, ">", 0) # -1
                     THEN Strip(GetText(stripped, 0)) ELSE stripped
         IN  Strip(CollapseWs(CollapseWs(apply_pattern_group(read, text_cleanup_patterns))))

(***************************************************************************)
(* extract_content on a page whose body is a list of <p> elements, each    *)
(* holding its text, after an empty <b> element when `lead` is set.        *)
(***************************************************************************)
\* line 575: str(element)
raw_html(element) ==
    "<p>" \o (IF element.lead THEN "<b></b>" ELSE "") \o element.text \o "</p>"

\* lines 567-592 from the i-th <p> on: all_text_parts at the end of the loop.
\* No element of the page is nested in another one that the loop visits,
\* and none has an id or a class.
RECURSIVE ExtractLoop(_, _, _, _)
ExtractLoop(elements, i, seen_text_hashes, all_text_parts) ==
    IF i > Len(elements) THEN all_text_parts
    ELSE LET cleaned_text == apply_pattern_group(CleanContent(raw_html(elements[i])),
                                                 specialized_patterns)
             content_hash == MD5(CollapseWs(Strip(Lower(cleaned_text))))
         IN  IF Len(cleaned_text) < MIN_CHUNK_CHARS \/ content_hash \in seen_text_hashes
             THEN ExtractLoop(elements, i + 1, seen_text_hashes, all_text_parts)
             ELSE ExtractLoop(elements, i + 1, seen_text_hashes \cup {content_hash},
                              Append(all_text_parts, cleaned_text))

\* "\n".join(parts)
RECURSIVE JoinLines(_)
JoinLines(parts) ==
    IF parts = << >> THEN ""
    ELSE IF Len(parts) = 1 THEN parts[1]
    ELSE parts[1] \o "\n" \o JoinLines(Tail(parts))

\* lines 593-623: the content made of all_text_parts, which hold no markup
JoinedContent(all_text_parts) ==
    CollapseWs(apply_pattern_group(Strip(JoinLines(all_text_parts)), text_cleanup_patterns))

\* the content extract_content returns
extract_content(elements) == JoinedContent(ExtractLoop(elements, 1, {}, << >>))

\* Document(page_content=chunk, metadata=chunk_metadata) of lines 682-692
ChunkDocument(chunk, metadata, i, total_chunks, chunk_type, section_title, section_level) ==
    [page_content |-> chunk,
     metadata |-> Merge(Merge(metadata,
                              [chunk_index |-> i, total_chunks |-> total_chunks,
                               chunk_type |-> chunk_type, section_title |-> section_title,
                               section_level |-> section_level]),
                        IF i > 0 THEN [continued |-> TRUE] ELSE << >>)]

\* a chunker that never finds a hash in the pool
NeverInProcessedHashes(hashes, content_hash) == FALSE

\* line 680: content_hash in self.processed_hashes
InProcessedHashes(hashes, content_hash) == content_hash \in hashes

\* the loop of lines 673-692 from index i on: the set of possible
\* [docs, hashes] it ends with
RECURSIVE ChunkLoop(_, _, _, _, _, _, _)
ChunkLoop(texts, i, chunk_fingerprints, hashes, unique_chunks, metadata, chunk_type) ==
    IF i >= Len(texts) THEN {[docs |-> unique_chunks, hashes |-> hashes]}
    ELSE LET chunk == texts[i + 1]
             section_title == IF "section_title" \in DOMAIN metadata
                              THEN metadata.section_title ELSE ""
             section_level == IF "section_level" \in DOMAIN metadata
                              THEN metadata.section_level ELSE 0
             normalized_text == CollapseWs(Lower(Strip(chunk)))
             text_fingerprint == MD5(normalized_text \o section_title)
             content_hash == MD5(chunk)
             doc == ChunkDocument(chunk, metadata, i, Len(texts), chunk_type,
                                  section_title, section_level)
         IN  IF text_fingerprint \in chunk_fingerprints
             THEN ChunkLoop(texts, i + 1, chunk_fingerprints, hashes, unique_chunks,
                            metadata, chunk_type)
             ELSE IF InProcessedHashes(hashes, content_hash)
             THEN ChunkLoop(texts, i + 1, chunk_fingerprints \cup {text_fingerprint},
                            hashes, unique_chunks, metadata, chunk_type)
             ELSE UNION {ChunkLoop(texts, i + 1, chunk_fingerprints \cup {text_fingerprint},
                                   h, Append(unique_chunks, doc), metadata, chunk_type) :
                         h \in add_to_processed_hashes(hashes, content_hash)}

\* create_chunks(text, metadata, chunk_type) with self.processed_hashes = hashes
create_chunks(text, metadata, chunk_type, hashes) ==
    IF text = "" \/ clean_content(text) = ""
    THEN {[docs |-> << >>, hashes |-> hashes]}
    ELSE ChunkLoop(split_text_by_size(text, chunk_size, chunk_overlap, MIN_CHUNK_CHARS),
                   0, {}, hashes, << >>, metadata, chunk_type)

(***************************************************************************)
(* create_structure_based_chunks.                                          *)
(*                                                                         *)
(* A parsed page is a record of what BeautifulSoup reports about it:       *)
(*   title             soup.title.text.strip()                             *)
(*   content           extract_content(soup)[0], the cleaned body          *)
(*   pruned_rejected   is_login_page or is_not_found_page of the soup      *)
(*                     after extract_content has decomposed the            *)
(*                     navigation containers in place                      *)
(*   pass1, pass2      the sections the first two structural passes form,  *)
(*                     each with its title, level, content list and        *)
(*                     `cleaned`, the result of extract_content on         *)
(*                     BeautifulSoup(full_text)                            *)
(*   body_text         body.get_text(separator=" ", strip=True)            *)
(***************************************************************************)
RECURSIVE JoinNl(_)
JoinNl(parts) ==
    IF parts = << >> THEN ""
    ELSE IF Len(parts) = 1 THEN parts[1]
    ELSE parts[1] \o "\n" \o JoinNl(Tail(parts))

LongEnough(doc) == Len(doc.page_content) >= MIN_CHUNK_CHARS

NoChunks(hashes) == {[docs |-> << >>, hashes |-> hashes]}

\* lines 750-761
add_section_to_chunks(section, metadata, hashes) ==
    LET content_text == Strip(JoinNl(section.content))
        full_text == IF section.title # ""
                     THEN section.title \o "\n\n" \o content_text
                     ELSE content_text
    IN  IF section.content = << >> THEN NoChunks(hashes)
        ELSE IF Len(full_text) < MIN_CHUNK_CHARS THEN NoChunks(hashes)
        ELSE IF section.cleaned = "" THEN NoChunks(hashes)
        ELSE {[docs |-> SelectSeq(o.docs, LongEnough), hashes |-> o.hashes] :
              o \in create_chunks(section.cleaned, metadata, "structural", hashes)}

SectionMetadata(page, url, depth, section_title, section_level) ==
    [source |-> url, section_title |-> section_title, section_level |-> section_level,
     language |-> page.language, depth |-> depth, title |-> page.title]

\* chunks.extend(add_section_to_chunks(section, metadata)) over sections[i..]
RECURSIVE SectionLoop(_, _, _, _, _, _, _)
SectionLoop(sections, i, page, url, depth, chunks, hashes) ==
    IF i > Len(sections) THEN {[docs |-> chunks, hashes |-> hashes]}
    ELSE UNION {SectionLoop(sections, i + 1, page, url, depth, chunks \o o.docs, o.hashes) :
                o \in add_section_to_chunks(
                          sections[i],
                          SectionMetadata(page, url, depth, sections[i].title,
                                          sections[i].level),
                          hashes)}

\* lines 842-854
StructuralPass3(page, url, depth, hashes) ==
    IF page.body_text = "" THEN NoChunks(hashes)
    ELSE create_chunks(page.body_text,
                       SectionMetadata(page, url, depth, page.title, 0),
                       "structural", hashes)

\* a chunker that runs its three passes whatever the earlier ones emitted
AllPassesChunks(page, url, depth, hashes) ==
    IF page.pruned_rejected THEN NoChunks(hashes)
    ELSE UNION {UNION {
           {[docs |-> o1.docs \o o2.docs \o o3.docs, hashes |-> o3.hashes] :
            o3 \in StructuralPass3(page, url, depth, o2.hashes)} :
           o2 \in SectionLoop(page.pass2, 1, page, url, depth, << >>, o1.hashes)} :
           o1 \in SectionLoop(page.pass1, 1, page, url, depth, << >>, hashes)}

\* lines 742-855
create_structure_based_chunks(page, url, depth, hashes) ==
    IF page.pruned_rejected THEN NoChunks(hashes)
    ELSE UNION {
           IF o1.docs # << >> THEN {o1}
           ELSE UNION {
                  IF o2.docs # << >> THEN {o2}
                  ELSE StructuralPass3(page, url, depth, o2.hashes) :
                  o2 \in SectionLoop(page.pass2, 1, page, url, depth, << >>, o1.hashes)} :
           o1 \in SectionLoop(page.pass1, 1, page, url, depth, << >>, hashes)}

(***************************************************************************)
(* process_url, from the parsed page on (lines 1151-1174).                 *)
(*                                                                         *)
(* `s` is the processor object: a record of the attributes of self that    *)
(* the pipeline reads and writes.  An operator that stands for a piece of  *)
(* code running without suspension yields the set of records               *)
(* [self, task] the piece can end with.                                    *)
(***************************************************************************)
Put(f, k, v) == [x \in (DOMAIN f) \cup {k} |-> IF x = k THEN v ELSE f[x]]

OfType(docs, chunk_type) ==
    LET Is(doc) == doc.metadata.chunk_type = chunk_type IN SelectSeq(docs, Is)

Done(char_docs, struct_docs, full_docs) ==
    [pc |-> "done", attempt |-> 0, mode |-> "none",
     result |-> [raised |-> FALSE, char_docs |-> char_docs,
                 struct_docs |-> struct_docs, full_docs |-> full_docs]]

Raised(message) ==
    [pc |-> "done", attempt |-> 0, mode |-> "none",
     result |-> [raised |-> TRUE, message |-> message]]

InFlight(pc, attempt, mode) ==
    [pc |-> pc, attempt |-> attempt, mode |-> mode, result |-> [raised |-> FALSE]]

\* a whole-page document that is emitted only when its hash is new
FullTextDocsDeduplicated(page, url, depth, hashes) ==
    IF Len(page.content) >= MIN_CHUNK_CHARS /\ MD5(page.content) \notin hashes
    THEN {[docs |-> <<[page_content |-> page.content,
                       metadata |-> [source |-> url, title |-> page.title,
                                     depth |-> depth, language |-> page.language,
                                     chunk_type |-> "full_text"]]>>,
           hashes |-> h] :
          h \in add_to_processed_hashes(hashes, MD5(page.content))}
    ELSE NoChunks(hashes)

\* lines 1161-1167: the whole-page document
FullTextDocs(page, url, depth, hashes) ==
    IF Len(page.content) >= MIN_CHUNK_CHARS
    THEN {[docs |-> <<[page_content |-> page.content,
                       metadata |-> [source |-> url, title |-> page.title,
                                     depth |-> depth, language |-> page.language,
                                     chunk_type |-> "full_text"]]>>,
           hashes |-> h] :
          h \in add_to_processed_hashes(hashes, MD5(page.content))}
    ELSE NoChunks(hashes)

CharacterDocs(page, url, depth, hashes) ==
    IF Len(page.content) >= MIN_CHUNK_CHARS
    THEN create_chunks(page.content,
                       [source |-> url, title |-> page.title, depth |-> depth,
                        language |-> page.language],
                       "character", hashes)
    ELSE NoChunks(hashes)

\* lines 1170-1174
CacheAndReturn(s, url, char_docs, struct_docs, full_docs) ==
    LET all_docs == char_docs \o struct_docs \o full_docs
    IN  IF all_docs # << >>
        THEN {[self |-> [s EXCEPT !.processed_urls = urls,
                                  !.url_to_documents_map = Put(@, url, all_docs)],
               task |-> Done(char_docs, struct_docs, full_docs)] :
              urls \in add_to_processed_urls(s.processed_urls, url)}
        ELSE {[self |-> s, task |-> Done(char_docs, struct_docs, full_docs)]}

\* lines 1151-1174; extract_content raising (a page nested too deeply for
\* str(element)) leaves process_url before anything is recorded
ProcessPage(s, url, depth, page) ==
    IF page.raises THEN {[self |-> s, task |-> Raised("RecursionError")]}
    ELSE LET counted == [s EXCEPT !.page_character_counts =
                            track_page_character_count(@, url, page.content, depth)]
         IN  UNION {UNION {UNION {
                 CacheAndReturn([counted EXCEPT !.processed_hashes = f.hashes],
                                url, c.docs, t.docs, f.docs) :
                 f \in FullTextDocs(page, url, depth, t.hashes)} :
                 t \in create_structure_based_chunks(page, url, depth, c.hashes)} :
                 c \in CharacterDocs(page, url, depth, s.processed_hashes)}

\* the return of line 1150; mode "failed" tells it from the return of a page
\* that had nothing to chunk
Failed == [Done(<< >>, << >>, << >>) EXCEPT !.mode = "failed"]

\* a failure branch that records no cause
FetchFailedUnrecorded(s, url) ==
    {[self |-> [s EXCEPT !.processed_urls = urls], task |-> Failed] :
     urls \in add_to_processed_urls(s.processed_urls, url)}

\* lines 1147-1150, for a fetch that returned nothing
FetchFailed(s, url) ==
    {[self |-> [s EXCEPT !.error_urls = Put(@, url, "Failed to fetch or invalid page"),
                         !.processed_urls = urls],
      task |-> Failed] :
     urls \in add_to_processed_urls(s.processed_urls, url)}

(***************************************************************************)
(* fetch_url_async, fetch_simple, fetch_with_js: what each does between    *)
(* two suspension points.  An HTML document is a record                    *)
(*   login, notfound   is_login_page / is_not_found_page of its soup       *)
(*   needs_js          weak_text or low_structure or has_js_warning or     *)
(*                     js_suspect (line 1111)                              *)
(*   page              the parsed page                                     *)
(***************************************************************************)
Errored(s, url, cause) == [s EXCEPT !.error_urls = Put(@, url, cause)]

\* lines 1146-1150 and on, once fetch_with_retry has returned a soup
ProcessFetched(s, url, depth, html) ==
    IF html.login \/ html.notfound THEN FetchFailed(s, url)
    ELSE ProcessPage(s, url, depth, html.page)

\* fetch_with_js returned None to its caller
AfterRenderNone(s, url, mode) ==
    IF mode = "soft"
    THEN \* fetch_simple returns None, line 1124 renders again
         {[self |-> s, task |-> InFlight("goto", 0, "pure")]}
    ELSE FetchFailed(s, url)

\* lines 1094-1123: content came from fetch_simple
AfterPlainContent(s, url, depth, html) ==
    IF html.login THEN FetchFailed(Errored(s, url, "Login page detected"), url)
    ELSE IF html.notfound
    THEN FetchFailed(Errored(s, url, "404 or content error detected"), url)
    ELSE IF html.needs_js THEN {[self |-> s, task |-> InFlight("goto", 0, "weak")]}
    ELSE ProcessFetched(s, url, depth, html)

\* fetch_with_js returned content to its caller
AfterRenderContent(s, url, depth, html, mode) ==
    IF mode = "soft" THEN AfterPlainContent(s, url, depth, html)
    ELSE IF html.login
    THEN FetchFailed(Errored(s, url, IF mode = "weak" THEN "Login page detected (post-JS)"
                                     ELSE "Login page detected (pure JS)"), url)
    ELSE IF html.notfound
    THEN FetchFailed(Errored(s, url, IF mode = "weak" THEN "404 (post-JS)"
                                     ELSE "404 (pure JS)"), url)
    ELSE ProcessFetched(s, url, depth, html)

\* fetch_simple, lines 925-949: one GET attempt has been answered
fetch_simple(s, url, depth, attempt, o) ==
    IF o.kind = "exception"
    THEN IF attempt = 2
         THEN {[self |-> Errored(s, url, "ClientError"),
                task |-> InFlight("goto", 0, "pure")]}
         ELSE {[self |-> s, task |-> InFlight("get", attempt + 1, "none")]}
    ELSE IF o.kind = "status"
    THEN {[self |-> Errored(s, url, "HTTP status: 404"),
           task |-> InFlight("goto", 0, "pure")]}
    ELSE IF o.kind = "soft"
    THEN {[self |-> Errored(s, url, "Soft block or empty content"),
           task |-> InFlight("goto", 0, "soft")]}
    ELSE IF o.resolved_url # url
    THEN LET r == [s EXCEPT !.redirected_urls = Put(@, url, o.resolved_url)]
         IN  IF o.resolved_url \notin s.processed_urls
             THEN AfterPlainContent(r, url, depth, o.html)
             ELSE {[self |-> [r EXCEPT !.processed_urls = urls],
                    task |-> InFlight("goto", 0, "pure")] :
                   urls \in add_to_processed_urls(s.processed_urls, url)}
    ELSE AfterPlainContent(s, url, depth, o.html)

\* the next round of the loop of fetch_with_js, or its end
NextRenderAttempt(s, url, attempt, mode) ==
    IF attempt = 2 THEN AfterRenderNone(s, url, mode)
    ELSE {[self |-> s, task |-> InFlight("goto", attempt + 1, mode)]}

\* fetch_with_js, lines 963-1023: the navigation of one attempt has ended
fetch_with_js_goto(s, url, attempt, mode, o) ==
    IF o.kind = "exception"
    THEN IF attempt = 2
         THEN AfterRenderNone(Errored(s, url, "JS rendering failed: Error"), url, mode)
         ELSE {[self |-> s, task |-> InFlight("goto", attempt + 1, mode)]}
    ELSE IF o.kind = "no_response" THEN NextRenderAttempt(s, url, attempt, mode)
    ELSE IF o.final_url # url
    THEN LET r == [s EXCEPT !.redirected_urls = Put(@, url, o.final_url)]
         IN  IF o.final_url \in s.processed_urls
             THEN UNION {AfterRenderNone([r EXCEPT !.processed_urls = urls], url, mode) :
                         urls \in add_to_processed_urls(s.processed_urls, url)}
             ELSE {[self |-> r, task |-> InFlight("content", attempt, mode)]}
    ELSE {[self |-> s, task |-> InFlight("content", attempt, mode)]}

\* fetch_with_js, lines 1024-1054: the page of one attempt has been read
fetch_with_js_content(s, url, depth, attempt, mode, o) ==
    IF o.kind = "too_large" THEN AfterRenderNone(s, url, mode)
    ELSE IF o.kind = "login_url"
    THEN AfterRenderNone(Errored(s, url, "Redirected to login page"), url, mode)
    ELSE IF o.kind = "usable" THEN AfterRenderContent(s, url, depth, o.html, mode)
    ELSE NextRenderAttempt(s, url, attempt, mode)

\* NON_HTML_EXTENSIONS, lines 48-52
NON_HTML_EXTENSIONS ==
    {".jpg", ".jpeg", ".png", ".gif", ".bmp", ".svg", ".pdf", ".mp4", ".mp3",
     ".avi", ".mov", ".wmv", ".zip", ".tar", ".gz", ".doc", ".docx", ".xls",
     ".xlsx", ".ppt", ".pptx", ".xml"}

\* str.endswith
EndsWith(t, suffix) ==
    Len(t) >= Len(suffix) /\ SubSeq(t, Len(t) - Len(suffix) + 1, Len(t)) = suffix

\* should_skip_url, lines 254-257; a URL of the model is its own path
should_skip_url(url) == \E ext \in NON_HTML_EXTENSIONS : EndsWith(Lower(url), ext)

\* process_url, lines 1137-1146, and fetch_url_async, lines 1089-1093: up
\* to the first suspension
process_url_start(s, url) ==
    IF url \in s.processed_urls /\ url \in DOMAIN s.url_to_documents_map
    THEN LET cached_docs == s.url_to_documents_map[url]
         IN  {[self |-> s, task |-> Done(OfType(cached_docs, "character"),
                                         OfType(cached_docs, "structural"),
                                         OfType(cached_docs, "full_text"))]}
    ELSE IF url \in DOMAIN s.redirected_urls /\ s.redirected_urls[url] \in s.processed_urls
    THEN {[self |-> [s EXCEPT !.processed_urls = urls], task |-> Done(<< >>, << >>, << >>)] :
          urls \in add_to_processed_urls(s.processed_urls, url)}
    ELSE IF should_skip_url(url)
    THEN FetchFailed(Errored(s, url, "Non-HTML content (skipped by extension)"), url)
    ELSE {[self |-> s, task |-> InFlight("get", 0, "none")]}

(***************************************************************************)
(* The web the model runs against: for each input URL, the answers its     *)
(* server can give to a GET, to a navigation of the browser and to a read  *)
(* of the rendered page.                                                   *)
(***************************************************************************)
Title == "t"
TextA == Rep("a", 20) \o " " \o Rep("a", 14)
TextB == Rep("b", 35)
TextLong == Rep("a", 33) \o ". " \o Rep("b", 31) \o ". " \o Rep("a", 30)
TextTiny == "aaaaa aaaa"

\* the section Pass 1 forms of a <p> holding `text`: extract_content finds no
\* element in BeautifulSoup(full_text) when the text holds no markup
Paragraph(text) == [title |-> Title, level |-> 1, content |-> <<text>>, cleaned |-> ""]

Page(content, body_text, pass1, pruned_rejected, raises) ==
    [title |-> Title, language |-> "en", content |-> content, body_text |-> body_text,
     pass1 |-> pass1, pass2 |-> << >>, pruned_rejected |-> pruned_rejected,
     raises |-> raises]

\* <ul><li>bbb</li></ul><p><b></b>TextA</p>
PageA == Page(TextA, "bbb " \o TextA, <<Paragraph(TextA)>>, FALSE, FALSE)
\* <p><b></b>TextB</p>
PageB == Page(TextB, TextB, <<Paragraph(TextB)>>, FALSE, FALSE)
\* <p><b></b>TextLong</p>
PageLong == Page(TextLong, TextLong, <<Paragraph(TextLong)>>, FALSE, FALSE)
\* a long <title>, a navigation <div> and <p>TextTiny</p>
PageTiny == Page("", TextTiny, << >>, FALSE, FALSE)
\* 29 characters of body left by the cleaner, under 50 characters of text
PageBare == Page(Rep("a", 29), Rep("a", 29), <<Paragraph(Rep("a", 29))>>, TRUE, FALSE)
\* markup nested too deeply for str(element)
PageDeep == Page("", "", << >>, FALSE, TRUE)

Pages == {PageA, PageB, PageLong, PageTiny, PageBare, PageDeep}

Html(login, notfound, needs_js, page) ==
    [login |-> login, notfound |-> notfound, needs_js |-> needs_js, page |-> page]

Plain(page) == Html(FALSE, FALSE, FALSE, page)

GetOk(resolved_url, html) == [kind |-> "ok", resolved_url |-> resolved_url, html |-> html]

Response(final_url) == [kind |-> "response", final_url |-> final_url]

Usable(html) == [kind |-> "usable", html |-> html]

(***************************************************************************)
(* process_urls_from_mapping, lines 1234-1261: from the mapping file to    *)
(* the list of URLs to process.  A mapping file is a record                *)
(*   keys            the keys of the JSON object, in file order            *)
(*   urls_by_depth   the lists under "urls_by_depth", by numeric depth,    *)
(*                   when the object has that key                          *)
(* and a limit is [given |-> FALSE] for None or [given |-> TRUE, n |-> _]. *)
(***************************************************************************)
NoLimit == [given |-> FALSE]
Limit(n) == [given |-> TRUE, n |-> n]

\* lines 1243-1246 and 1250-1253: the URLs of a list that are kept, each
\* with the depth given
Kept(urls, depth) ==
    LET Wanted(url) == ~should_skip_url(url)
        kept == SelectSeq(urls, Wanted)
    IN  [i \in DOMAIN kept |-> <<kept[i], depth>>]

\* lines 1239-1254: the loop over the depths, from `depth` on; a depth
\* missing under "urls_by_depth" takes the fallback branch, which reads the keys
\* of the file as URLs of depth 0 and leaves the loop
RECURSIVE urls_to_process(_, _, _)
urls_to_process(url_map, depth, max_depth) ==
    IF depth > max_depth THEN << >>
    ELSE IF "urls_by_depth" \in DOMAIN url_map /\ depth \in DOMAIN url_map.urls_by_depth
    THEN Kept(url_map.urls_by_depth[depth], depth)
           \o urls_to_process(url_map, depth + 1, max_depth)
    ELSE Kept(url_map.keys, 0)

\* lines 1255-1259: the first entry of every URL
unique_urls(entries) ==
    LET First(i) == \A j \in 1..(i - 1) : entries[j][1] # entries[i][1]
        RECURSIVE From(_)
        From(i) == IF i > Len(entries) THEN << >>
                   ELSE (IF First(i) THEN <<entries[i]>> ELSE << >>) \o From(i + 1)
    IN  From(1)

\* lines 1260-1261: `if limit:` holds for a limit that is given and not 0
unique_urls_to_process(url_map, max_depth, limit) ==
    LET unique == unique_urls(urls_to_process(url_map, 0, max_depth))
    IN  IF limit.given /\ limit.n # 0
        THEN SubSeq(unique, 1, Min(limit.n, Len(unique)))
        ELSE unique

(***************************************************************************)
(* main.py: the command-line entry point merges the mapping files into one *)
(* list of URLs and hands the processor a temporary file keyed by URL.     *)
(***************************************************************************)
\* main.py, extract_all_urls, lines 45-54: the lists in ascending depth
RECURSIVE AllListed(_, _)
AllListed(urls_by_depth, depths) ==
    IF depths = {} THEN << >>
    ELSE LET least == CHOOSE d \in depths : \A e \in depths : d <= e
         IN  urls_by_depth[least] \o AllListed(urls_by_depth, depths \ {least})

extract_all_urls(url_map) ==
    IF "urls_by_depth" \in DOMAIN url_map
    THEN AllListed(url_map.urls_by_depth, DOMAIN url_map.urls_by_depth)
    ELSE url_map.keys

\* main.py, merge_url_maps_with_priority, lines 57-70, for one file
merge_url_maps_with_priority(url_map) ==
    LET urls == extract_all_urls(url_map)
        RECURSIVE From(_)
        From(i) == IF i > Len(urls) THEN << >>
                   ELSE (IF \E j \in 1..(i - 1) : urls[j] = urls[i] THEN << >> ELSE <<urls[i]>>)
                        \o From(i + 1)
    IN  From(1)

\* main.py, main, lines 184-203, up to the file it hands to
\* process_mapped_urls: `if args.limit is not None`
merged_url_map_temp(url_map, limit) ==
    LET merged_urls == merge_url_maps_with_priority(url_map)
    IN  [keys |-> IF limit.given
                  THEN SubSeq(merged_urls, 1, Min(limit.n, Len(merged_urls)))
                  ELSE merged_urls]

\* main.py, main and process_mapped_urls (lines 130-133): the URLs the run
\* schedules
main(url_map, max_depth, limit) ==
    unique_urls_to_process(merged_url_map_temp(url_map, limit), max_depth, NoLimit)

\* the mapping file of the run, read with max_depth 1 and no limit
UrlMap == [keys |-> <<"urls_by_depth">>,
           urls_by_depth |-> [depth \in {0, 1} |->
                                IF depth = 0 THEN <<"u1", "u2", "d.pdf">> ELSE <<"u3">>]]

\* unique_urls_to_process, as <<url, depth>>
InputUrls == unique_urls_to_process(UrlMap, 1, NoLimit)

Web ==
    [u1 |-> [get |-> {GetOk("u1", Plain(PageA)),
                      GetOk("u1", Html(FALSE, FALSE, TRUE, PageA)),
                      [kind |-> "soft"]},
             goto |-> {Response("u1")},
             content |-> {Usable(Plain(PageA)), [kind |-> "too_large"]}],
     u2 |-> [get |-> {GetOk("u2", Plain(PageB)), GetOk("u2", Plain(PageTiny)),
                      GetOk("u1", Plain(PageB)), [kind |-> "exception"]},
             goto |-> {Response("u2"), [kind |-> "exception"]},
             content |-> {Usable(Plain(PageB))}],
     u3 |-> [get |-> {GetOk("u3", Plain(PageA)), GetOk("u3", Plain(PageLong)),
                      GetOk("u3", Plain(PageDeep)), GetOk("u3", Plain(PageBare)),
                      GetOk("u3", Html(TRUE, FALSE, FALSE, PageBare)),
                      GetOk("u3", Html(FALSE, TRUE, FALSE, PageBare)),
                      GetOk("v", Plain(PageLong)), [kind |-> "status"]},
             goto |-> {Response("u3"), [kind |-> "no_response"]},
             content |-> {Usable(Plain(PageLong)), [kind |-> "login_url"],
                          [kind |-> "weak"]}]]

GetOutcomes(url) == Web[url].get
GotoOutcomes(url) == Web[url].goto
ContentOutcomes(url) == Web[url].content

\* the machines the processor is constructed on: psutil's logical CPUs and
\* the whole part of total_ram_gb
Machines == {[logical_cpus |-> 1, total_ram_gb |-> 1],
             [logical_cpus |-> 1, total_ram_gb |-> 2],
             [logical_cpus |-> 1, total_ram_gb |-> 4]}

\* line 72
MaxWorkers(machine) ==
    Min(Min(machine.logical_cpus * 2,
            (machine.total_ram_gb \div 2) * machine.logical_cpus), 200)

\* line 73
js_slots(s) == Max(4, s.max_workers \div 6)

(***************************************************************************)
(* process_urls_from_mapping (lines 1265-1305) and its tasks.              *)
(***************************************************************************)
VARIABLES
    self,               \* the processor's attributes
    pc,                 \* "loop", "gather" or "done"
    index,              \* i of the batch loop
    batch,              \* the batch being gathered
    tasks,              \* the tasks of the batch, by position in it
    semaphore,          \* free slots of the worker semaphore
    progress,           \* progress_bar.n
    character_chunks, structural_chunks, full_text_chunks,
    observed,           \* history: the <<u, v>> with u seen to redirect to v
                        \* while v was in processed_urls
    completion,         \* history: the tasks of the batch in the order they
                        \* completed
    js_calls,           \* the calls of fetch_with_js, by URL
    js_semaphore,       \* free slots of self.js_semaphore
    contexts,           \* browser contexts created and not closed
    browser,            \* self.browser (0 for None), the browsers launched
                        \* and not closed, browser_lock, and whether the run
                        \* has gone through its finally block
    applied,            \* one function called on its own: its name, its
                        \* arguments and, once it has returned, its result
    session,            \* self.session (0 for None), the sessions closed,
                        \* session_lock, self.session_request_count and,
                        \* as history, the GET requests sent on each session
    fetchers            \* the calls of fetch_simple: where each one is in
                        \* its round and the session it was given

vars == <<self, pc, index, batch, tasks, semaphore, progress,
          character_chunks, structural_chunks, full_text_chunks, observed,
          completion, js_calls, js_semaphore, contexts, browser, applied,
          session, fetchers>>

\* the HTTP client on its own
http == <<session, fetchers>>

\* the calls of fetch_simple that may run at the same time
Fetchers == {1, 2}

\* the render backend on its own
render == <<js_calls, js_semaphore, contexts, browser>>

\* the URLs fetch_with_js is called with
RenderUrls == {InputUrls[i][1] : i \in DOMAIN InputUrls}

\* the processor after __init__, before the run
Constructed ==
    /\ \E machine \in Machines :
          self = [max_workers |-> MaxWorkers(machine),
                  processed_urls |-> {}, processed_hashes |-> {}, full_text_hashes |-> {},
                  error_urls |-> << >>, redirected_urls |-> << >>,
                  url_to_documents_map |-> << >>, page_character_counts |-> << >>]
    /\ pc = "loop"
    /\ index = 0
    /\ batch = << >>
    /\ tasks = << >>
    /\ semaphore = self.max_workers
    /\ progress = 0
    /\ character_chunks = << >>
    /\ structural_chunks = << >>
    /\ full_text_chunks = << >>
    /\ observed = {}
    /\ completion = << >>
    /\ js_calls = [url \in RenderUrls |-> [pc |-> "idle", attempt |-> 0, returned |-> "nothing"]]
    /\ js_semaphore = js_slots(self)
    /\ contexts = 0
    /\ browser = [current |-> 0, launched |-> 0, open |-> {}, lock |-> FALSE,
                  shutdown |-> FALSE]
    /\ session = [current |-> 0, closed |-> {}, lock |-> FALSE,
                  session_request_count |-> 0, sent |-> << >>]
    /\ fetchers = [t \in Fetchers |-> [pc |-> "idle", session |-> 0]]

Init == Constructed /\ applied = [op |-> "none"]

\* lines 1276-1279: the tasks of the next batch are created
Gather ==
    /\ pc = "loop"
    /\ index < Len(InputUrls)
    /\ batch' = SubSeq(InputUrls, index + 1, Min(index + batch_size, Len(InputUrls)))
    /\ tasks' = [k \in 1..Len(batch') |-> InFlight("new", 0, "none")]
    /\ pc' = "gather"
    /\ UNCHANGED <<self, index, semaphore, progress, character_chunks,
                   structural_chunks, full_text_chunks, observed, completion, render, applied, http>>

\* a task ends a piece of work with outcome o: lines 1271-1274
TaskStep(k, o, held) ==
    /\ self' = o.self
    /\ tasks' = [tasks EXCEPT ![k] = o.task]
    /\ semaphore' = IF o.task.pc = "done" THEN held + 1 ELSE held
    /\ progress' = IF o.task.pc = "done" /\ ~o.task.result.raised
                   THEN progress + 1 ELSE progress
    /\ completion' = IF o.task.pc = "done" THEN Append(completion, k) ELSE completion
    /\ UNCHANGED <<pc, index, batch, character_chunks, structural_chunks,
                   full_text_chunks, render, applied, http>>

\* a semaphore that never makes its caller wait
AlwaysFree(value) == TRUE

\* `async with semaphore` (lines 1271, 963) goes on without waiting
Free(value) == value > 0

\* process_with_semaphore gets a slot and process_url runs to its first wait;
\* the tasks of a batch reach the semaphore in the order gather created
\* them, and its waiters are served first come, first served
Start(k) ==
    /\ pc = "gather"
    /\ tasks[k].pc = "new"
    /\ \A j \in 1..(k - 1) : tasks[j].pc # "new"
    /\ Free(semaphore)
    /\ \E o \in process_url_start(self, batch[k][1]) : TaskStep(k, o, semaphore - 1)
    /\ UNCHANGED observed

GetAnswered(k) ==
    /\ pc = "gather"
    /\ tasks[k].pc = "get"
    /\ \E a \in GetOutcomes(batch[k][1]) :
         /\ \E o \in fetch_simple(self, batch[k][1], batch[k][2], tasks[k].attempt, a) :
               TaskStep(k, o, semaphore)
         /\ observed' = IF a.kind = "ok" /\ a.resolved_url # batch[k][1]
                           /\ a.resolved_url \in self.processed_urls
                        THEN observed \cup {<<batch[k][1], a.resolved_url>>}
                        ELSE observed

Navigated(k) ==
    /\ pc = "gather"
    /\ tasks[k].pc = "goto"
    /\ \E a \in GotoOutcomes(batch[k][1]) :
         /\ \E o \in fetch_with_js_goto(self, batch[k][1], tasks[k].attempt,
                                        tasks[k].mode, a) :
               TaskStep(k, o, semaphore)
         /\ observed' = IF a.kind = "response" /\ a.final_url # batch[k][1]
                           /\ a.final_url \in self.processed_urls
                        THEN observed \cup {<<batch[k][1], a.final_url>>}
                        ELSE observed

Rendered(k) ==
    /\ pc = "gather"
    /\ tasks[k].pc = "content"
    /\ \E a \in ContentOutcomes(batch[k][1]) :
         \E o \in fetch_with_js_content(self, batch[k][1], batch[k][2], tasks[k].attempt,
                                        tasks[k].mode, a) :
            TaskStep(k, o, semaphore)
    /\ UNCHANGED observed

\* a merge of results[j] that leaves processed_urls alone
CollectResultUnmarked(acc, j) ==
    LET result == tasks[j].result
    IN  IF result.raised
        THEN [acc EXCEPT !.self = Errored(@, batch[j][1], result.message)]
        ELSE [self |-> acc.self,
              character_chunks |-> acc.character_chunks \o result.char_docs,
              structural_chunks |-> acc.structural_chunks \o result.struct_docs,
              full_text_chunks |-> acc.full_text_chunks \o result.full_docs]

\* lines 1281-1293 for results[j], on the accumulated
\* [self, character_chunks, structural_chunks, full_text_chunks]
CollectResult(acc, j) ==
    LET url == batch[j][1]
        result == tasks[j].result
    IN  IF result.raised
        THEN [acc EXCEPT !.self = Errored(@, url, result.message)]
        ELSE LET total == Len(result.char_docs) + Len(result.struct_docs)
                            + Len(result.full_docs)
                 added == IF total > 0
                          THEN {url} \cup (IF url \in DOMAIN acc.self.redirected_urls
                                           THEN {acc.self.redirected_urls[url]} ELSE {})
                          ELSE {}
             IN  [self |-> [acc.self EXCEPT !.processed_urls = @ \cup added],
                  character_chunks |-> acc.character_chunks \o result.char_docs,
                  structural_chunks |-> acc.structural_chunks \o result.struct_docs,
                  full_text_chunks |-> acc.full_text_chunks \o result.full_docs]

\* the loop of lines 1280-1293 from results[j] on
RECURSIVE Collected(_, _)
Collected(j, acc) ==
    IF j > Len(batch) THEN acc ELSE Collected(j + 1, CollectResult(acc, j))

\* gather has returned: the results of the batch are merged
Collect ==
    /\ pc = "gather"
    /\ \A k \in 1..Len(batch) : tasks[k].pc = "done"
    /\ LET acc == Collected(1, [self |-> self, character_chunks |-> character_chunks,
                                structural_chunks |-> structural_chunks,
                                full_text_chunks |-> full_text_chunks])
       IN  /\ self' = acc.self
           /\ character_chunks' = acc.character_chunks
           /\ structural_chunks' = acc.structural_chunks
           /\ full_text_chunks' = acc.full_text_chunks
    /\ index' = index + batch_size
    /\ pc' = "loop"
    /\ batch' = << >>
    /\ tasks' = << >>
    /\ completion' = << >>
    /\ UNCHANGED <<semaphore, progress, observed, render, applied, http>>

\* lines 1294-1305: process_urls_from_mapping returns
Return ==
    /\ pc = "loop"
    /\ index >= Len(InputUrls)
    /\ pc' = "done"
    /\ UNCHANGED <<self, index, batch, tasks, semaphore, progress, character_chunks,
                   structural_chunks, full_text_chunks, observed, completion, render, applied, http>>

Next ==
    \/ Gather
    \/ \E k \in DOMAIN tasks : Start(k)
    \/ \E k \in DOMAIN tasks : GetAnswered(k)
    \/ \E k \in DOMAIN tasks : Navigated(k)
    \/ \E k \in DOMAIN tasks : Rendered(k)
    \/ Collect
    \/ Return

Spec == Init /\ [][Next]_vars

(***************************************************************************)
(* fetch_with_js (lines 960-1060) on its own: one call per URL, each call  *)
(* a loop of three attempts.  An attempt takes a slot of js_semaphore and  *)
(* creates a context, navigates, reads the page, and gives the slot back   *)
(* when it leaves the `async with` block.  The calls come from the tasks   *)
(* of process_url, of which at most max_workers run at a time.             *)
(***************************************************************************)
pipeline == <<pc, index, batch, tasks, semaphore, progress, character_chunks,
              structural_chunks, full_text_chunks, observed, completion>>

\* fetch_with_js returns to its caller
JsReturned(returned) == [pc |-> "returned", attempt |-> 0, returned |-> returned]

\* the attempt is over without a return: the next round of the loop, or the
\* end of the loop after the third
JsNextAttempt(call) ==
    IF call.attempt = 2 THEN JsReturned("None")
    ELSE [call EXCEPT !.pc = "new", !.attempt = @ + 1]

\* the calls that have not returned
JsActive == {url \in RenderUrls : js_calls[url].pc \notin {"idle", "returned"}}

\* lines 932, 1112, 1124: a task that holds a worker slot calls fetch_with_js
JsCall(url) ==
    /\ js_calls[url].pc = "idle"
    /\ ~browser.shutdown
    /\ Cardinality(JsActive) < self.max_workers
    /\ js_calls' = [js_calls EXCEPT ![url].pc = "new"]
    /\ UNCHANGED <<self, pipeline, js_semaphore, contexts, browser, applied, http>>

\* lines 963-999: the attempt takes a slot; with a browser at hand it
\* creates its context and page, without one it calls init_browser
JsAcquire(url) ==
    /\ js_calls[url].pc = "new"
    /\ Free(js_semaphore)
    /\ js_semaphore' = js_semaphore - 1
    /\ IF browser.current = 0
       THEN /\ js_calls' = [js_calls EXCEPT ![url].pc = "init"]
            /\ UNCHANGED contexts
       ELSE /\ js_calls' = [js_calls EXCEPT ![url].pc = "goto"]
            /\ contexts' = contexts + 1
    /\ UNCHANGED <<self, pipeline, browser, applied, http>>

\* init_browser, lines 951-954: the call gets browser_lock; self.context is
\* None throughout the run (nothing assigns it), so the test of line 953
\* holds whether or not a browser has been launched meanwhile
JsInitBrowser(url) ==
    /\ js_calls[url].pc = "init"
    /\ ~browser.lock
    /\ browser' = [browser EXCEPT !.lock = TRUE]
    /\ js_calls' = [js_calls EXCEPT ![url].pc = "launching"]
    /\ UNCHANGED <<self, pipeline, js_semaphore, contexts, applied, http>>

\* init_browser, lines 955-958: the launch has completed and self.browser is
\* the new browser; back in fetch_with_js the context is created (line 992)
JsLaunched(url) ==
    /\ js_calls[url].pc = "launching"
    /\ browser' = [browser EXCEPT !.current = browser.launched + 1,
                                  !.launched = @ + 1,
                                  !.open = @ \cup {browser.launched + 1},
                                  !.lock = FALSE]
    /\ contexts' = contexts + 1
    /\ js_calls' = [js_calls EXCEPT ![url].pc = "goto"]
    /\ UNCHANGED <<self, pipeline, js_semaphore, applied, http>>

\* lines 1005-1023 and 1054-1060: page.goto has ended.  Only the path of
\* lines 1016-1023 closes the context; an exception of the last goto and a
\* navigation without response leave the `async with` block with the
\* context open
JsGoto(url) ==
    /\ js_calls[url].pc = "goto"
    /\ \E a \in GotoOutcomes(url) :
         IF a.kind = "exception"
         THEN /\ self' = IF js_calls[url].attempt = 2
                         THEN Errored(self, url, "JS rendering failed: Error")
                         ELSE self
              /\ js_calls' = [js_calls EXCEPT ![url] = JsNextAttempt(@)]
              /\ js_semaphore' = js_semaphore + 1
              /\ UNCHANGED contexts
         ELSE IF a.kind = "no_response"
         THEN /\ js_calls' = [js_calls EXCEPT ![url] = JsNextAttempt(@)]
              /\ js_semaphore' = js_semaphore + 1
              /\ UNCHANGED <<self, contexts>>
         ELSE IF a.final_url # url /\ a.final_url \in self.processed_urls
         THEN /\ \E urls \in add_to_processed_urls(self.processed_urls, url) :
                    self' = [self EXCEPT !.redirected_urls = Put(@, url, a.final_url),
                                         !.processed_urls = urls]
              /\ js_calls' = [js_calls EXCEPT ![url] = JsReturned("None")]
              /\ js_semaphore' = js_semaphore + 1
              /\ contexts' = contexts - 1
         ELSE /\ self' = IF a.final_url # url
                         THEN [self EXCEPT !.redirected_urls = Put(@, url, a.final_url)]
                         ELSE self
              /\ js_calls' = [js_calls EXCEPT ![url].pc = "content"]
              /\ UNCHANGED <<js_semaphore, contexts>>
    /\ UNCHANGED <<pipeline, browser, applied, http>>

\* lines 1024-1054: the page has been read; every path closes the context
JsContent(url) ==
    /\ js_calls[url].pc = "content"
    /\ \E a \in ContentOutcomes(url) :
         /\ self' = IF a.kind = "login_url"
                    THEN Errored(self, url, "Redirected to login page")
                    ELSE self
         /\ js_calls' = [js_calls EXCEPT ![url] =
                            IF a.kind \in {"too_large", "login_url"} THEN JsReturned("None")
                            ELSE IF a.kind = "usable" THEN JsReturned("content")
                            ELSE JsNextAttempt(@)]
    /\ js_semaphore' = js_semaphore + 1
    /\ contexts' = contexts - 1
    /\ UNCHANGED <<pipeline, browser, applied, http>>

\* process_urls_from_mapping, lines 1306-1327: every task has returned and
\* the finally block closes self.browser, and with it the contexts of that
\* browser
Shutdown ==
    /\ ~browser.shutdown
    /\ JsActive = {}
    /\ browser' = [browser EXCEPT !.current = 0, !.open = @ \ {browser.current},
                                  !.shutdown = TRUE]
    /\ contexts' \in {n \in 0..contexts : browser.open \subseteq {browser.current} => n = 0}
    /\ UNCHANGED <<self, pipeline, js_calls, js_semaphore, applied, http>>

FetcherNext ==
    \/ \E url \in RenderUrls : JsCall(url)
    \/ \E url \in RenderUrls : JsAcquire(url)
    \/ \E url \in RenderUrls : JsInitBrowser(url)
    \/ \E url \in RenderUrls : JsLaunched(url)
    \/ \E url \in RenderUrls : JsGoto(url)
    \/ \E url \in RenderUrls : JsContent(url)
    \/ Shutdown

FetcherSpec == Init /\ [][FetcherNext]_vars

(***************************************************************************)
(* The loading of the mapping file on its own (lines 1234-1261), for       *)
(* mapping files with any of the depths 0..2 present, a max_depth and a    *)
(* limit.                                                                  *)
(***************************************************************************)
MaxDepth == 2

\* the lists a mapping file can hold under the depths 0, 1 and 2
ListedAt(depth) ==
    IF depth = 0 THEN <<"a", "b.pdf", "c">>
    ELSE IF depth = 1 THEN <<"c", "d">>
    ELSE <<"a", "e", "e">>

UrlMaps ==
    {[keys |-> <<"urls_by_depth">>, urls_by_depth |-> [depth \in depths |-> ListedAt(depth)]] :
     depths \in SUBSET {0, 1, 2}}

Limits == {NoLimit, Limit(0), Limit(1), Limit(3)}

LoaderInit ==
    /\ Constructed
    /\ applied \in {[op |-> op, url_map |-> url_map,
                      max_depth |-> max_depth, limit |-> limit,
                      returned |-> FALSE, result |-> << >>] :
                     op \in {"process_urls_from_mapping", "main"},
                     url_map \in UrlMaps, max_depth \in 0..MaxDepth, limit \in Limits}

\* lines 1234-1261 run on the arguments
LoadUrls ==
    /\ applied.op = "process_urls_from_mapping"
    /\ ~applied.returned
    /\ applied' = [applied EXCEPT
                      !.returned = TRUE,
                      !.result = unique_urls_to_process(applied.url_map, applied.max_depth,
                                                        applied.limit)]
    /\ UNCHANGED <<self, pipeline, render, http>>

\* main.py run on the arguments
RunMain ==
    /\ applied.op = "main"
    /\ ~applied.returned
    /\ applied' = [applied EXCEPT
                      !.returned = TRUE,
                      !.result = main(applied.url_map, applied.max_depth, applied.limit)]
    /\ UNCHANGED <<self, pipeline, render, http>>

LoaderNext == LoadUrls \/ RunMain

LoaderSpec == LoaderInit /\ [][LoaderNext]_vars

(***************************************************************************)
(* split_text_by_size on its own (lines 631-665), called as create_chunks  *)
(* calls it (min_chars = MIN_CHUNK_CHARS), on texts of length              *)
(* 2 * max_size + 1 that hold no mark or one space, full stop, or full     *)
(* stop and space.                                                         *)
(***************************************************************************)
SplitSizes == {30, 33}

SplitOverlaps == {0, 10, 15, 16, 20, 29}

SplitTexts(max_size) ==
    {Rep("a", 2 * max_size + 1)} \cup
    {Rep("a", at) \o mark \o Rep("a", 2 * max_size + 1 - at - Len(mark)) :
     at \in {i \in 1..(2 * max_size - 2) : i % 3 = 1}, mark \in {" ", ".", ". "}}

SplitterInit ==
    /\ Constructed
    /\ \E max_size \in SplitSizes :
          applied \in {[op |-> "split_text_by_size", text |-> text, max_size |-> max_size,
                        overlap_size |-> overlap_size, returned |-> FALSE,
                        result |-> << >>, windows |-> << >>] :
                       text \in SplitTexts(max_size), overlap_size \in SplitOverlaps}

\* lines 631-665 run on the arguments
SplitText ==
    /\ applied.op = "split_text_by_size"
    /\ ~applied.returned
    /\ applied' = [applied EXCEPT
                      !.returned = TRUE,
                      !.result = split_text_by_size(applied.text, applied.max_size,
                                                    applied.overlap_size, MIN_CHUNK_CHARS),
                      !.windows = SplitWindows(applied.text, applied.max_size,
                                               applied.overlap_size, 0)]
    /\ UNCHANGED <<self, pipeline, render, http>>

SplitterNext == SplitText

SplitterSpec == SplitterInit /\ [][SplitterNext]_vars

(***************************************************************************)
(* clean_content called on its own, on the texts of at most MaxWords words *)
(* of CleanWords separated by single spaces.                               *)
(***************************************************************************)
MaxWords == 4

CleanWords == {"Back", "to", "Top", "Home", "Footer"}

RECURSIVE JoinSp(_)
JoinSp(words) ==
    IF Len(words) = 1 THEN words[1] ELSE words[1] \o " " \o JoinSp(Tail(words))

CleanTexts == {JoinSp(words) : words \in UNION {[1..n -> CleanWords] : n \in 1..MaxWords}}

CleanerInit ==
    /\ Constructed
    /\ applied \in {[op |-> "clean_content", text |-> text, returned |-> FALSE,
                     result |-> "", again |-> ""] : text \in CleanTexts}

\* clean_content run on the text, and once more on what it returned
CleanText ==
    /\ applied.op = "clean_content"
    /\ ~applied.returned
    /\ applied' = [applied EXCEPT
                      !.returned = TRUE,
                      !.result = CleanContent(applied.text),
                      !.again = CleanContent(CleanContent(applied.text))]
    /\ UNCHANGED <<self, pipeline, render, http>>

CleanerNext == CleanText

CleanerSpec == CleanerInit /\ [][CleanerNext]_vars

(***************************************************************************)
(* extract_content and the character chunks of process_url, on the pages   *)
(* of at most MaxBlocks <p> elements that all hold the same text up to     *)
(* the case of its first letter.                                           *)
(***************************************************************************)
MaxBlocks == 5

Blocks == {[lead |-> FALSE, text |-> TextA], [lead |-> TRUE, text |-> TextA],
           [lead |-> TRUE, text |-> "A" \o Slice(TextA, 1, Len(TextA))]}

ExtractorPages == UNION {[1..n -> Blocks] : n \in 1..MaxBlocks}

ExtractorInit ==
    /\ Constructed
    /\ applied \in {[op |-> "extract_content", page |-> page, returned |-> FALSE,
                     parts |-> << >>, content |-> "", char_docs |-> << >>] :
                    page \in ExtractorPages}

\* lines 1153 and 1156-1159 of process_url on the page
ExtractPage ==
    /\ applied.op = "extract_content"
    /\ ~applied.returned
    /\ LET parts == ExtractLoop(applied.page, 1, {}, << >>)
           content == JoinedContent(parts)
       IN  \E c \in CharacterDocs([title |-> Title, language |-> "en", content |-> content],
                                  "u1", 0, self.processed_hashes) :
              applied' = [applied EXCEPT !.returned = TRUE, !.parts = parts,
                                         !.content = content, !.char_docs = c.docs]
    /\ UNCHANGED <<self, pipeline, render, http>>

ExtractorNext == ExtractPage

ExtractorSpec == ExtractorInit /\ [][ExtractorNext]_vars

(***************************************************************************)
(* One call of fetch_url_async by process_url (lines 1093-1134, with       *)
(* fetch_simple and fetch_with_js), against a server that may give any     *)
(* answer to each request. `gets` and `gotos` count the GET attempts of     *)
(* fetch_simple and the navigation attempts of fetch_with_js (the rounds   *)
(* of their loops) made since the call began.                              *)
(***************************************************************************)
FetchedUrl == "u1"

FetchGetOutcomes ==
    {GetOk(FetchedUrl, Plain(PageA)), GetOk(FetchedUrl, Html(FALSE, FALSE, TRUE, PageA)),
     GetOk("v", Plain(PageA)), [kind |-> "soft"], [kind |-> "exception"], [kind |-> "status"]}

FetchGotoOutcomes == {Response(FetchedUrl), [kind |-> "exception"], [kind |-> "no_response"]}

FetchContentOutcomes ==
    {Usable(Plain(PageA)), Usable(Html(FALSE, FALSE, TRUE, PageA)),
     [kind |-> "too_large"], [kind |-> "login_url"], [kind |-> "weak"]}

\* the attributes all tasks share that differ between two states of the
\* processor
Written(before, after) ==
    {attr \in {"redirected_urls", "error_urls", "processed_urls"} : before[attr] # after[attr]}

\* the processor after the writes fetch_with_js makes inside
\* `async with self.url_lock` when a navigation has ended with outcome o:
\* lines 1017-1018 and 1057-1058
LockedGotoWrites(s, url, attempt, o) ==
    IF o.kind = "exception"
    THEN IF attempt = 2 THEN Errored(s, url, "JS rendering failed: Error") ELSE s
    ELSE IF o.kind = "response" /\ o.final_url # url
    THEN [s EXCEPT !.redirected_urls = Put(@, url, o.final_url)]
    ELSE s

\* the same when the page has been read with outcome o: lines 1040-1041
LockedContentWrites(s, url, o) ==
    IF o.kind = "login_url" THEN Errored(s, url, "Redirected to login page") ELSE s

\* `unlocked` is history: the shared attributes the last step wrote while the
\* task did not hold url_lock
FetchInit ==
    /\ Constructed
    /\ applied = [op |-> "fetch_url_async", url |-> FetchedUrl,
                  task |-> InFlight("get", 0, "none"), gets |-> 0, gotos |-> 0,
                  unlocked |-> {}]

\* fetch_simple: one round of the loop of lines 903-949
FetchGet ==
    /\ applied.op = "fetch_url_async"
    /\ applied.task.pc = "get"
    /\ \E a \in FetchGetOutcomes :
          \E o \in fetch_simple(self, applied.url, 0, applied.task.attempt, a) :
             /\ self' = o.self
             /\ applied' = [applied EXCEPT !.task = o.task, !.gets = @ + 1,
                                           !.unlocked = Written(self, o.self)]
    /\ UNCHANGED <<pipeline, render, http>>

\* fetch_with_js: the navigation of one round of the loop of lines 961-1060
FetchGoto ==
    /\ applied.op = "fetch_url_async"
    /\ applied.task.pc = "goto"
    /\ \E a \in FetchGotoOutcomes :
          \E o \in fetch_with_js_goto(self, applied.url, applied.task.attempt,
                                      applied.task.mode, a) :
             /\ self' = o.self
             /\ applied' = [applied EXCEPT
                               !.task = o.task, !.gotos = @ + 1,
                               !.unlocked = Written(LockedGotoWrites(self, applied.url,
                                                                     applied.task.attempt, a),
                                                    o.self)]
    /\ UNCHANGED <<pipeline, render, http>>

\* fetch_with_js: the page of that round is read
FetchContent ==
    /\ applied.op = "fetch_url_async"
    /\ applied.task.pc = "content"
    /\ \E a \in FetchContentOutcomes :
          \E o \in fetch_with_js_content(self, applied.url, 0, applied.task.attempt,
                                         applied.task.mode, a) :
             /\ self' = o.self
             /\ applied' = [applied EXCEPT
                               !.task = o.task,
                               !.unlocked = Written(LockedContentWrites(self, applied.url, a),
                                                    o.self)]
    /\ UNCHANGED <<pipeline, render, http>>

FetchNext == FetchGet \/ FetchGoto \/ FetchContent

FetchSpec == FetchInit /\ [][FetchNext]_vars

(***************************************************************************)
(* create_session (lines 857-895) and the GET of fetch_simple (lines       *)
(* 908-929), for the calls of fetch_simple that hold a worker slot.  The   *)
(* 50 requests of line 861 are scaled down to max_session_requests, and    *)
(* no round begins once MaxGets requests have been sent.                   *)
(***************************************************************************)
max_session_requests == 2

MaxGets == 4

\* the calls that are inside a round of the loop of fetch_simple
Fetching == {t \in Fetchers : fetchers[t].pc # "idle"}

\* the GET requests sent so far
RECURSIVE Sum(_)
Sum(counts) == IF counts = << >> THEN 0 ELSE Head(counts) + Sum(Tail(counts))

\* aiohttp.ClientSession(...), lines 878-894: a new session is self.session
NewSession(client) ==
    [client EXCEPT !.current = Len(client.sent) + 1, !.sent = Append(@, 0)]

\* line 908: a round of fetch_simple calls create_session and gets
\* session_lock. Lines 861-865 close a session whose counter is over the
\* limit and sleep with the lock held; lines 866-867 return the session at
\* hand; lines 868-895 create one
CreateSession(t) ==
    /\ fetchers[t].pc = "idle"
    /\ Cardinality(Fetching) < self.max_workers
    /\ Sum(session.sent) < MaxGets
    /\ ~session.lock
    /\ IF session.current # 0 /\ session.session_request_count > max_session_requests
       THEN /\ session' = [session EXCEPT !.closed = @ \cup {session.current},
                                          !.current = 0,
                                          !.session_request_count = 0,
                                          !.lock = TRUE]
            /\ fetchers' = [fetchers EXCEPT ![t].pc = "recycling"]
       ELSE IF session.current # 0
       THEN /\ fetchers' = [fetchers EXCEPT ![t] = [pc |-> "sleep",
                                                    session |-> session.current]]
            /\ UNCHANGED session
       ELSE /\ session' = NewSession(session)
            /\ fetchers' = [fetchers EXCEPT ![t] = [pc |-> "sleep",
                                                    session |-> session'.current]]
    /\ UNCHANGED <<self, pipeline, render, applied>>

\* lines 865-895: the sleep after the close is over; self.session is None,
\* so a session is created, and session_lock is released
SessionReplaced(t) ==
    /\ fetchers[t].pc = "recycling"
    /\ session' = [NewSession(session) EXCEPT !.lock = FALSE]
    /\ fetchers' = [fetchers EXCEPT ![t] = [pc |-> "sleep", session |-> session'.current]]
    /\ UNCHANGED <<self, pipeline, render, applied>>

\* lines 924-925: the sleep of line 924 is over and session.get is called on
\* the session the round was given; a closed session raises at once and the
\* round ends in the except clause of line 945
SendGet(t) ==
    /\ fetchers[t].pc = "sleep"
    /\ IF fetchers[t].session \in session.closed
       THEN /\ fetchers' = [fetchers EXCEPT ![t].pc = "idle"]
            /\ UNCHANGED session
       ELSE /\ session' = [session EXCEPT !.sent[fetchers[t].session] = @ + 1]
            /\ fetchers' = [fetchers EXCEPT ![t].pc = "get"]
    /\ UNCHANGED <<self, pipeline, render, applied>>

\* lines 925-944: the response has come, the counter is incremented (line
\* 926) and the body is read
Responded(t) ==
    /\ fetchers[t].pc = "get"
    /\ fetchers[t].session \notin session.closed
    /\ session' = [session EXCEPT !.session_request_count = @ + 1]
    /\ fetchers' = [fetchers EXCEPT ![t].pc = "idle"]
    /\ UNCHANGED <<self, pipeline, render, applied>>

\* line 945: the request raises before a response has come (a timeout, a
\* connection error, the session closed under it); nothing is counted
GetRaised(t) ==
    /\ fetchers[t].pc = "get"
    /\ fetchers' = [fetchers EXCEPT ![t].pc = "idle"]
    /\ UNCHANGED <<self, pipeline, render, applied, session>>

SessionNext ==
    \/ \E t \in Fetchers : CreateSession(t)
    \/ \E t \in Fetchers : SessionReplaced(t)
    \/ \E t \in Fetchers : SendGet(t)
    \/ \E t \in Fetchers : Responded(t)
    \/ \E t \in Fetchers : GetRaised(t)

SessionSpec == Init /\ [][SessionNext]_vars

(***************************************************************************)
(* create_structure_based_chunks called on its own.  A section of Pass 1   *)
(* or Pass 2 gives chunks only when its text is itself markup, since       *)
(* add_section_to_chunks parses the text again (line 757): the sections    *)
(* below hold either plain text or the markup of a paragraph.  The         *)
(* sections of Pass 2 are under <h2> headings.                             *)
(***************************************************************************)
StructBlock(c) == [lead |-> TRUE, text |-> Rep(c, 32)]

\* a section of the given level whose text is plain, or the markup of
\* StructBlock(c)
Sections(level, c) ==
    {[title |-> Title, level |-> level, content |-> <<Rep(c, 32)>>, cleaned |-> ""],
     [title |-> Title, level |-> level, content |-> <<raw_html(StructBlock(c))>>,
      cleaned |-> extract_content(<<StructBlock(c)>>)]}

StructPages ==
    {[Page("", body_text, pass1, pruned_rejected, FALSE) EXCEPT !.pass2 = pass2] :
     body_text \in {"", Rep("c", 34)},
     pass1 \in {<< >>} \cup {<<section>> : section \in Sections(1, "a")},
     pass2 \in {<< >>} \cup {<<section>> : section \in Sections(2, "b")},
     pruned_rejected \in BOOLEAN}

StructuralInit ==
    /\ Constructed
    /\ applied \in {[op |-> "create_structure_based_chunks", page |-> page,
                     returned |-> FALSE, result |-> << >>] : page \in StructPages}

ChunkStructure ==
    /\ applied.op = "create_structure_based_chunks"
    /\ ~applied.returned
    /\ \E o \in create_structure_based_chunks(applied.page, "u1", 0, self.processed_hashes) :
          /\ applied' = [applied EXCEPT !.returned = TRUE, !.result = o.docs]
          /\ self' = [self EXCEPT !.processed_hashes = o.hashes]
    /\ UNCHANGED <<pipeline, render, http>>

StructuralNext == ChunkStructure

StructuralSpec == StructuralInit /\ [][StructuralNext]_vars

(***************************************************************************)
(* The choice of the main-content node in clean_content, lines 298-316.    *)
(* A document is given by the selectors of the list that match one of its  *)
(* elements and by whether it has a <body>; the element a selector         *)
(* matches first is named after the selector, and no element of the        *)
(* documents below is matched by two selectors.                            *)
(***************************************************************************)
\* lines 299-305
main_content_selectors ==
    <<"main", "article", "section[class*=content]",
      "div[class*=main-content]", "div[class*=content-section]", "div[class*=text-block]",
      "div[id=content]", "div[id=main]", "div[id=bodyContent]",
      "div[class*=content]", "div[class*=text]", "div[class*=body]",
      "div[class*=page]", "div[class*=container]", "center">>

None == "None"

\* soup.select_one(selector)
select_one(soup, selector) == IF selector \in soup.matched THEN selector ELSE None

\* lines 312-313: the loop assigns main_content for every selector in turn
RECURSIVE SelectorLoop(_, _, _)
SelectorLoop(soup, i, main_content) ==
    IF i > Len(main_content_selectors) THEN main_content
    ELSE SelectorLoop(soup, i + 1, select_one(soup, main_content_selectors[i]))

\* lines 298-316: main_content when the list of lines 318 on is reached
MainContent(soup) ==
    LET main_content == SelectorLoop(soup, 1, None)
    IN  IF main_content = None
        THEN (IF soup.body THEN "body" ELSE "document")
        ELSE main_content

\* the selectors the documents below may match
SampleSelectors == {"main", "article", "div[id=content]", "div[class*=content]",
                    "div[class*=container]", "center"}

Soups == {[matched |-> matched, body |-> body] :
          matched \in SUBSET SampleSelectors, body \in BOOLEAN}

SelectorInit ==
    /\ Constructed
    /\ applied \in {[op |-> "main_content", soup |-> soup, returned |-> FALSE,
                     result |-> None] : soup \in Soups}

SelectMainContent ==
    /\ applied.op = "main_content"
    /\ ~applied.returned
    /\ applied' = [applied EXCEPT !.returned = TRUE, !.result = MainContent(applied.soup)]
    /\ UNCHANGED <<self, pipeline, render, http>>

SelectorNext == SelectMainContent

SelectorSpec == SelectorInit /\ [][SelectorNext]_vars

(***************************************************************************)
(* detect_language, lines 259-284.  The parsed page is given by the four   *)
(* attribute values the function reads (None when the attribute or its     *)
(* element is absent); langdetect's detect is given by what it answers     *)
(* for the sample: a language code, or "raise" when it raises.             *)
(***************************************************************************)
LowerLetters == {"a", "b", "c", "d", "e", "f", "g", "h", "i", "j", "k", "l", "m",
                 "n", "o", "p", "q", "r", "s", "t", "u", "v", "w", "x", "y", "z"}

\* re.sub(r'[^a-z]', '', t)
RECURSIVE OnlyLowerLetters(_)
OnlyLowerLetters(t) ==
    IF t = "" THEN ""
    ELSE (IF At(t, 0) \in LowerLetters THEN At(t, 0) ELSE "")
             \o OnlyLowerLetters(Slice(t, 1, Len(t)))

\* t.split('-')[0]
BeforeHyphen(t) == IF Find(t, "-", 0) = -1 THEN t ELSE Slice(t, 0, Find(t, "-", 0))

\* tag.get(name).strip().lower() of an attribute that is present and not empty
Attribute(value) == IF value = None \/ value = "" THEN "" ELSE Lower(Strip(value))

\* lines 267-279: html_lang after the four sources were consulted in turn
html_lang_of(soup) ==
    IF Attribute(soup.lang) # "" THEN Attribute(soup.lang)
    ELSE IF Attribute(soup.xml_lang) # "" THEN Attribute(soup.xml_lang)
    ELSE IF Attribute(soup.content_language) # "" THEN Attribute(soup.content_language)
    ELSE Attribute(soup.og_locale)

\* lines 259-284
detect_language(soup, text_sample, url, detect) ==
    IF url # None /\ url # "" /\ EndsWith(Lower(url), "_ger.html") THEN "de"
    ELSE IF text_sample # "" /\ Len(text_sample) >= 50 /\ detect # "raise" THEN detect
    ELSE LET html_lang == html_lang_of(soup)
             reduced == OnlyLowerLetters(BeforeHyphen(Lower(html_lang)))
         IN  IF html_lang # "" /\ Len(reduced) = 2 THEN reduced ELSE "en"

LocaleValues == {None, "de-DE", "de_DE", "fr"}

LanguageSoups ==
    {[lang |-> lang, xml_lang |-> xml_lang, content_language |-> content_language,
      og_locale |-> og_locale] :
     lang \in {None, "fr"}, xml_lang \in {None, "de-DE"},
     content_language \in LocaleValues, og_locale \in LocaleValues}

LanguageInit ==
    /\ Constructed
    /\ applied \in {[op |-> "detect_language", soup |-> soup, text_sample |-> text_sample,
                     url |-> url, detect |-> detect, returned |-> FALSE, result |-> None] :
                    soup \in LanguageSoups,
                    text_sample \in {"", Rep("a", 49), Rep("a", 50)},
                    url \in {None, "index_ger.html", "index_eng.html"},
                    detect \in {"de", "it", "raise"}}

DetectLanguage ==
    /\ applied.op = "detect_language"
    /\ ~applied.returned
    /\ applied' = [applied EXCEPT
                      !.returned = TRUE,
                      !.result = detect_language(applied.soup, applied.text_sample,
                                                 applied.url, applied.detect)]
    /\ UNCHANGED <<self, pipeline, render, http>>

LanguageNext == DetectLanguage

LanguageSpec == LanguageInit /\ [][LanguageNext]_vars

(***************************************************************************)
(* The while loop of split_text_by_size, lines 639-664, one round at a     *)
(* time, for small chunk sizes and overlaps on the texts of at most four   *)
(* characters written with a letter, a space and a full stop.              *)
(***************************************************************************)
LoopSizes == 1..3

LoopOverlaps == 0..3

LoopChars == {"a", " ", "."}

RECURSIVE LoopTexts(_)
LoopTexts(n) ==
    IF n = 0 THEN {""} ELSE {t \o c : t \in LoopTexts(n - 1), c \in LoopChars}

LoopInit ==
    /\ Constructed
    /\ applied \in {[op |-> "split_loop", text |-> text, max_size |-> max_size,
                     overlap_size |-> overlap_size, pc |-> "entry",
                     start |-> 0, rounds |-> 0, last_start |-> 0] :
                    text \in UNION {LoopTexts(n) : n \in 1..4},
                    max_size \in LoopSizes, overlap_size \in LoopOverlaps}

\* lines 632-638: a text of at most max_size characters is returned whole
EnterLoop ==
    /\ applied.op = "split_loop"
    /\ applied.pc = "entry"
    /\ applied' = [applied EXCEPT
                      !.pc = IF Len(applied.text) <= applied.max_size
                             THEN "returned" ELSE "loop"]
    /\ UNCHANGED <<self, pipeline, render, http>>

\* lines 639-664: one round of the loop
SplitRound ==
    /\ applied.op = "split_loop"
    /\ applied.pc = "loop"
    /\ LET end == WindowEnd(applied.text, applied.max_size, applied.overlap_size,
                            applied.start)
       IN  applied' =
               IF ~(applied.start < Len(applied.text)) \/ end >= Len(applied.text)
               THEN [applied EXCEPT !.pc = "returned"]
               ELSE [applied EXCEPT
                        !.rounds = 1,
                        !.last_start = applied.start,
                        !.start = NextStart(applied.text, applied.max_size,
                                            applied.overlap_size, applied.start, end)]
    /\ UNCHANGED <<self, pipeline, render, http>>

LoopNext == EnterLoop \/ SplitRound

LoopSpec == LoopInit /\ [][LoopNext]_vars

(***************************************************************************)
(* resolve_final of src/dedup.py, called as final_of calls it: with the    *)
(* redirect map build_redirect_map returned and the one cache of the run,  *)
(* empty at the start, for one URL after another.                          *)
(***************************************************************************)
DedupUrls == {"a", "b", "c"}

\* the redirect maps over DedupUrls, partial, with cycles and self-loops
RedirectMaps == UNION {[keys -> DedupUrls] : keys \in SUBSET DedupUrls}

\* lines 69-73: the while loop from cur on; <<cur, seen>> at its end
RECURSIVE ResolveLoop(_, _, _)
ResolveLoop(cur, seen, redir_map) ==
    IF cur \notin seen /\ cur \in DOMAIN redir_map /\ redir_map[cur] # cur
    THEN ResolveLoop(redir_map[cur], seen \cup {cur}, redir_map)
    ELSE <<cur, seen>>

\* lines 66-77: what is returned, and the cache the call leaves
resolve_final(u, redir_map, cache) ==
    IF u \in DOMAIN cache THEN [returned |-> cache[u], cache |-> cache]
    ELSE LET walk == ResolveLoop(u, {}, redir_map)
             cur == walk[1]
             seen == walk[2]
         IN  [returned |-> cur,
              cache |-> [v \in DOMAIN cache \cup seen \cup {u} |->
                            IF v \in seen \cup {u} THEN cur ELSE cache[v]]]

DedupInit ==
    /\ Constructed
    /\ applied \in {[op |-> "resolve_final", redir_map |-> redir_map, final_cache |-> << >>,
                     u |-> None, returned |-> None] : redir_map \in RedirectMaps}

\* lines 119-122: final_of(u) up to the call of canonicalize
FinalOf ==
    /\ applied.op = "resolve_final"
    /\ \E u \in DedupUrls :
          LET call == resolve_final(u, applied.redir_map, applied.final_cache)
          IN  applied' = [applied EXCEPT !.u = u, !.returned = call.returned,
                                         !.final_cache = call.cache]
    /\ UNCHANGED <<self, pipeline, render, http>>

DedupNext == FinalOf

DedupSpec == DedupInit /\ [][DedupNext]_vars

(***************************************************************************)
(* Properties.                                                             *)
(***************************************************************************)
Range(seq) == {seq[i] : i \in DOMAIN seq}

\* the chunks of the three output streams
Emitted == Range(character_chunks) \cup Range(structural_chunks) \cup Range(full_text_chunks)

\* the URLs that contributed at least one chunk to an output stream
Contributors == {doc.metadata.source : doc \in Emitted}

\* task k returns from process_url in this step
Finishes(k) ==
    /\ pc = "gather" /\ pc' = "gather"
    /\ tasks[k].pc # "done" /\ tasks'[k].pc = "done"

\* C1: in every state the URLs with an entry in error_urls and the URLs
\* that contributed a chunk to an output stream are disjoint.
C1_ErrorsDisjointFromChunks == (DOMAIN self.error_urls) \cap Contributors = {}

\* C2 as stated: when process_urls_from_mapping has returned, every URL
\* that contributed a chunk is in processed_urls, or its recorded redirect
\* target is.
C2_ContributorsProcessedAtReturn ==
    pc = "done" =>
        \A url \in Contributors :
            \/ url \in self.processed_urls
            \/ /\ url \in DOMAIN self.redirected_urls
               /\ self.redirected_urls[url] \in self.processed_urls

\* C2, amended: when the results of a batch have been merged, every URL of
\* that batch whose task returned a chunk is in processed_urls, and so is
\* its recorded redirect target; nothing is promised for the URLs of earlier
\* batches, which a later halving of processed_urls may have evicted.
C2_ContributorsProcessedAtCollect ==
    [][(pc = "gather" /\ pc' = "loop") =>
          \A j \in DOMAIN batch :
              LET url == batch[j][1]
                  result == tasks[j].result
              IN  (~result.raised
                   /\ result.char_docs \o result.struct_docs \o result.full_docs # << >>)
                  => /\ url \in self'.processed_urls
                     /\ url \in DOMAIN self'.redirected_urls
                            => self'.redirected_urls[url] \in self'.processed_urls]_vars

\* a run has returned in which the halving evicted one contributor and
\* another one is still in processed_urls
C2_Witness ==
    /\ pc = "done"
    /\ \E url \in Contributors : url \notin self.processed_urls
    /\ \E url \in Contributors : url \in self.processed_urls

\* C3: when u has been seen to redirect to v while v was in processed_urls,
\* process_url(u) returns no chunk in any family, with u in processed_urls
\* and redirected_urls[u] = v.
C3_RedirectToProcessedEmitsNothing ==
    [][\A k \in DOMAIN tasks :
          Finishes(k) =>
             \A hit \in observed' :
                hit[1] = batch[k][1] =>
                   LET result == tasks'[k].result
                   IN  /\ ~result.raised
                       /\ result.char_docs = << >>
                       /\ result.struct_docs = << >>
                       /\ result.full_docs = << >>
                       /\ hit[1] \in self'.processed_urls
                       /\ hit[1] \in DOMAIN self'.redirected_urls
                       /\ self'.redirected_urls[hit[1]] = hit[2]]_vars

SameSectionTitle(a, b) ==
    LET title(doc) == IF "section_title" \in DOMAIN doc.metadata
                      THEN doc.metadata.section_title ELSE ""
    IN  title(a) = title(b)

C5_FullTextDeduplicated ==
    \A i, j \in DOMAIN full_text_chunks :
        i < j => MD5(full_text_chunks[i].page_content) # MD5(full_text_chunks[j].page_content)

\* C6: the pools are separate: the MD5 of every emitted whole-page document
\* is recorded in full_text_hashes, and processed_hashes records nothing but
\* the MD5s of character and structural chunks.
C6_SeparatePools ==
    /\ \A doc \in Range(full_text_chunks) : MD5(doc.page_content) \in self.full_text_hashes
    /\ pc # "gather" =>
          \A hash \in self.processed_hashes :
              \E doc \in Range(character_chunks) \cup Range(structural_chunks) :
                  hash = MD5(doc.page_content)

\* C7: every chunk of the three output streams has at least MIN_CHUNK_CHARS
\* characters of content.
C7_MinChunkChars == \A doc \in Emitted : Len(doc.page_content) >= MIN_CHUNK_CHARS

\* C8: a page whose cleaned body is shorter than MIN_CHUNK_CHARS emits no
\* chunk and gets no entry in page_character_counts.
\* track_page_character_count runs on every fetched page and records the page
\* exactly when its body has MIN_CHUNK_CHARS characters or more, so the claim
\* says that every URL that contributed a chunk has an entry.
C8_ShortBodyEmitsNothing ==
    \A url \in Contributors : url \in DOMAIN self.page_character_counts

\* C9: process_url emits exactly one whole-page document, of chunk_type
\* full_text and with the cleaned body as its content, for a fetched page
\* whose cleaned body has MIN_CHUNK_CHARS characters or more, and none for
\* any other URL.
C9_OneFullTextPerPage ==
    /\ \A k \in DOMAIN tasks :
          (tasks[k].pc = "done" /\ ~tasks[k].result.raised) =>
             LET url == batch[k][1]
                 full_docs == tasks[k].result.full_docs
             IN  IF url \in DOMAIN self.page_character_counts
                 THEN /\ Len(full_docs) = 1
                      /\ full_docs[1].metadata.chunk_type = "full_text"
                      /\ full_docs[1].metadata.source = url
                      /\ Len(full_docs[1].page_content)
                            = self.page_character_counts[url].character_count
                 ELSE full_docs = << >>
    /\ \A i \in DOMAIN InputUrls, page \in Pages :
          \A o \in FullTextDocs(page, InputUrls[i][1], InputUrls[i][2],
                                self.processed_hashes) :
             IF Len(page.content) >= MIN_CHUNK_CHARS
             THEN /\ Len(o.docs) = 1
                  /\ o.docs[1].page_content = page.content
                  /\ o.docs[1].metadata.chunk_type = "full_text"
                  /\ o.docs[1].metadata.source = InputUrls[i][1]
             ELSE o.docs = << >>

\* a batch in which one task has returned a whole-page document and another
\* one has returned without any
C9_Witness ==
    /\ \E k \in DOMAIN tasks :
          /\ tasks[k].pc = "done" /\ ~tasks[k].result.raised
          /\ Len(tasks[k].result.full_docs) = 1
          /\ Len(tasks[k].result.full_docs[1].page_content) >= MIN_CHUNK_CHARS
    /\ \E k \in DOMAIN tasks :
          /\ tasks[k].pc = "done" /\ ~tasks[k].result.raised
          /\ tasks[k].result.full_docs = << >>
          /\ batch[k][1] \notin DOMAIN self.error_urls

\* C10: every emitted chunk has a chunk_index below its total_chunks, and
\* one with chunk_index > 0 has continued = TRUE and total_chunks > 1.
C10_ChunkIndexes ==
    \A doc \in Emitted :
        /\ "chunk_index" \in DOMAIN doc.metadata
        /\ "total_chunks" \in DOMAIN doc.metadata
        /\ doc.metadata.chunk_index < doc.metadata.total_chunks
        /\ doc.metadata.chunk_index > 0 =>
              /\ "continued" \in DOMAIN doc.metadata
              /\ doc.metadata.continued = TRUE
              /\ doc.metadata.total_chunks > 1

\* C11: a call of process_url for a URL that has an entry in
\* url_to_documents_map returns the cached documents, split by chunk_type,
\* without issuing a fetch and without changing the processor, in every
\* state of the run.
C11_CachedDocumentsReturned ==
    \A url \in DOMAIN self.url_to_documents_map :
        LET cached_docs == self.url_to_documents_map[url]
        IN  process_url_start(self, url)
               = {[self |-> self,
                   task |-> Done(OfType(cached_docs, "character"),
                                 OfType(cached_docs, "structural"),
                                 OfType(cached_docs, "full_text"))]}

\* the task of batch position j has failed: process_url raised, or took
\* the failure return of line 1150
HasFailed(j) == tasks[j].result.raised \/ tasks[j].mode = "failed"

\* C12: a URL whose processing fails returns no chunk and has an entry in
\* error_urls once its batch has been merged; the entry is never removed;
\* and the merge of a batch collects every chunk of the tasks of the batch
\* that did return.
C12_FailureRecordedAndContained ==
    [][/\ \A k \in DOMAIN tasks :
             (Finishes(k) /\ tasks'[k].mode = "failed") =>
                /\ tasks'[k].result.char_docs = << >>
                /\ tasks'[k].result.struct_docs = << >>
                /\ tasks'[k].result.full_docs = << >>
                /\ batch[k][1] \in DOMAIN self'.error_urls
       /\ (pc = "gather" /\ pc' = "loop") =>
             \A j \in DOMAIN batch :
                IF HasFailed(j)
                THEN /\ batch[j][1] \in DOMAIN self'.error_urls
                     /\ \A doc \in Emitted' : doc.metadata.source # batch[j][1]
                ELSE /\ Range(tasks[j].result.char_docs) \subseteq Range(character_chunks')
                     /\ Range(tasks[j].result.struct_docs) \subseteq Range(structural_chunks')
                     /\ Range(tasks[j].result.full_docs) \subseteq Range(full_text_chunks')
       /\ DOMAIN self.error_urls \subseteq DOMAIN self'.error_urls]_vars

\* a batch has been merged in which one URL failed and another one
\* contributed chunks
C12_Witness ==
    /\ pc = "loop"
    /\ \E url \in DOMAIN self.error_urls :
          /\ self.error_urls[url] = "Failed to fetch or invalid page"
          /\ url \notin Contributors
    /\ Contributors # {}
    /\ index = batch_size

\* C13: when the pipeline has returned, every URL of the mapping with a
\* non-HTML extension has an entry in error_urls with the skip-by-extension
\* cause, and no task was created for it.
C13_SkippedUrlRecorded ==
    pc = "done" =>
        \A depth \in DOMAIN UrlMap.urls_by_depth :
            \A url \in Range(UrlMap.urls_by_depth[depth]) :
                should_skip_url(url) =>
                   /\ url \in DOMAIN self.error_urls
                   /\ self.error_urls[url] = "Non-HTML content (skipped by extension)"
                   /\ \A j \in DOMAIN InputUrls : InputUrls[j][1] # url

StartsWith(t, prefix) == Len(t) >= Len(prefix) /\ SubSeq(t, 1, Len(prefix)) = prefix

\* the causes that name a category of the error taxonomy: skipped by
\* extension, HTTP status, soft block, login page, error page, render
\* failed, and the message of a transport or parse exception
IdentifiesCategory(cause) ==
    \/ cause = "Non-HTML content (skipped by extension)"
    \/ StartsWith(cause, "HTTP status: ")
    \/ cause = "Soft block or empty content"
    \/ cause \in {"Login page detected", "Login page detected (post-JS)",
                  "Login page detected (pure JS)", "Redirected to login page"}
    \/ cause \in {"404 or content error detected", "404 (post-JS)", "404 (pure JS)"}
    \/ StartsWith(cause, "JS rendering failed: ")
    \/ cause \in {"ClientError", "RecursionError"}

\* C14: the cause stored for a URL in error_urls names a category of the
\* taxonomy, and a cause that names one is not replaced by one that names
\* none.
C14_CauseIdentifiesCategory ==
    [][\A url \in DOMAIN self'.error_urls :
          /\ IdentifiesCategory(self'.error_urls[url])
          /\ (url \in DOMAIN self.error_urls /\ IdentifiesCategory(self.error_urls[url]))
                => IdentifiesCategory(self'.error_urls[url])]_vars

\* the render call fetch_simple makes at line 932 for the URL of task k has
\* not returned yet
SoftBlockRenderPending(k) ==
    tasks[k].mode = "soft" /\ tasks[k].pc \in {"goto", "content"}

\* C15: in every state where the cause stored for a URL is the soft block,
\* the render fallback for that URL has completed (and so can have ended
\* without usable HTML): it is not recorded while the render is still
\* under way.
C15_SoftBlockRecordedAfterRender ==
    \A k \in DOMAIN tasks :
        (/\ batch[k][1] \in DOMAIN self.error_urls
         /\ self.error_urls[batch[k][1]] = "Soft block or empty content")
            => ~SoftBlockRenderPending(k)

\* C16: when process_urls_from_mapping has returned, the progress counter
\* has advanced once for every scheduled URL, whatever the outcome of its
\* task.
C16_ProgressCountsEveryUrl == pc = "done" => progress = Len(InputUrls)

\* C18: at every moment the browser contexts created and not yet closed
\* are at most js_slots = max(4, max_workers // 6), whatever the
\* interleaving of the calls and the outcome of each navigation.
C18_OpenContextsBounded == contexts <= js_slots(self)

\* the tasks of the batch that are inside process_url
Running == {k \in DOMAIN tasks : tasks[k].pc \in {"get", "goto", "content"}}

\* C17: at every moment the calls of process_url in flight are at most
\* max_workers, also when the batch holds more URLs than max_workers; each
\* of them holds one slot of the semaphore.
C17_InFlightWithinMaxWorkers ==
    /\ Cardinality(Running) <= self.max_workers
    /\ semaphore >= 0
    /\ semaphore + Cardinality(Running) = self.max_workers

\* max_workers tasks are in flight while a further task of the batch waits
C17_Witness ==
    /\ self.max_workers > 0
    /\ self.max_workers < batch_size
    /\ Cardinality(Running) = self.max_workers
    /\ \E k \in DOMAIN tasks : tasks[k].pc = "new"

\* C19: on every machine, with max_workers = min(2 x CPUs,
\* floor(RAM_GB / 2) x CPUs, 200), every scheduled URL eventually gets a
\* slot and process_urls_from_mapping eventually returns.  Stated as the
\* absence of a dead end: while a batch is gathered, a call of process_url
\* is in flight (its network and render calls complete), or every task is
\* done and the batch is collected, or the next waiting task can take a
\* slot.  In a state where none of these holds no URL gets a slot any more
\* and the function never returns.
C19_RunCanGoOn ==
    pc = "gather" =>
        \/ Running # {}
        \/ \A k \in DOMAIN tasks : tasks[k].pc = "done"
        \/ Free(semaphore)

\* the documents the tasks of `order` returned for a stream, task after task
RECURSIVE ResultsInOrder(_, _)
ResultsInOrder(order, stream) ==
    IF order = << >> THEN << >>
    ELSE (IF tasks[Head(order)].result.raised THEN << >>
          ELSE tasks[Head(order)].result[stream])
         \o ResultsInOrder(Tail(order), stream)

\* C20: in each stream the chunks of different URLs appear in the order in
\* which the URLs' tasks completed: a batch extends each stream by the
\* documents of its tasks in completion order.
C20_StreamsInCompletionOrder ==
    [][(pc = "gather" /\ pc' = "loop") =>
          /\ character_chunks' = character_chunks \o ResultsInOrder(completion, "char_docs")
          /\ structural_chunks' = structural_chunks \o ResultsInOrder(completion, "struct_docs")
          /\ full_text_chunks' = full_text_chunks \o ResultsInOrder(completion, "full_docs")]_vars

\* the entries <<url, depth>> a mapping file lists under the depths from
\* `depth` to max_depth that it holds, in ascending depth
RECURSIVE ListedFrom(_, _, _)
ListedFrom(url_map, depth, max_depth) ==
    IF depth > max_depth THEN << >>
    ELSE (IF depth \in DOMAIN url_map.urls_by_depth
          THEN [i \in DOMAIN url_map.urls_by_depth[depth] |->
                   <<url_map.urls_by_depth[depth][i], depth>>]
          ELSE << >>)
         \o ListedFrom(url_map, depth + 1, max_depth)

\* the entries whose URL has not occurred before, from entry i on
RECURSIVE FirstOccurrences(_, _)
FirstOccurrences(entries, i) ==
    IF i > Len(entries) THEN << >>
    ELSE (IF \E j \in 1..(i - 1) : entries[j][1] = entries[i][1]
          THEN << >> ELSE <<entries[i]>>)
         \o FirstOccurrences(entries, i + 1)

\* the schedule as specified: listed under a depth <= max_depth, without the
\* non-HTML extensions, first occurrences only, cut to the limit if given
SpecifiedSchedule(url_map, max_depth, limit) ==
    LET HtmlEntry(entry) == ~should_skip_url(entry[1])
        wanted == FirstOccurrences(SelectSeq(ListedFrom(url_map, 0, max_depth), HtmlEntry), 1)
    IN  IF limit.given THEN SubSeq(wanted, 1, Min(limit.n, Len(wanted))) ELSE wanted

\* C21: for a mapping file of the urls_by_depth shape and any max_depth and
\* limit, the URLs scheduled are those listed under the depths <= max_depth
\* in ascending depth, without the non-HTML extensions, deduplicated to
\* the first occurrence and cut to the first `limit` when a limit is given
\* (also when a depth of 0..max_depth is absent, and when limit is 0).
C21_ScheduleAsSpecified ==
    (applied.op = "process_urls_from_mapping" /\ applied.returned) =>
        applied.result = SpecifiedSchedule(applied.url_map, applied.max_depth, applied.limit)

\* the depths under which a mapping file lists a URL
DepthsOf(url_map, url) ==
    {depth \in DOMAIN url_map.urls_by_depth : url \in Range(url_map.urls_by_depth[depth])}

\* C22: the depth a URL is scheduled with, which process_url attaches to
\* every chunk and page_character_counts record of the URL, is the smallest
\* depth under which the mapping file lists the URL, for a run started
\* from the command line as for a direct call.
C22_DepthIsSmallestListed ==
    applied.returned =>
        \A i \in DOMAIN applied.result :
            LET url == applied.result[i][1]
                depth == applied.result[i][2]
            IN  /\ depth \in DepthsOf(applied.url_map, url)
                /\ \A d \in DepthsOf(applied.url_map, url) : depth <= d

\* C23: whenever process_urls_from_mapping has finished, every browser that
\* was launched during the run has been closed.
C23_LaunchedBrowsersClosed == browser.shutdown => browser.open = {}

\* the characters of the text two windows have in common
Shared(v, w) == Max(0, Min(v[2], w[2]) - Max(v[1], w[1]))

\* the windows whose chunk is emitted (line 654)
EmittedWindows(text, windows) ==
    {i \in DOMAIN windows :
        Len(Strip(Slice(text, windows[i][1], windows[i][2]))) >= MIN_CHUNK_CHARS}

\* C24: for a chunk size N >= 2, an overlap K with 0 <= K < N and a text of
\* length 2N + 1, the character splitter yields at most 3 chunks, and any
\* two of them share at most K characters of the text.
C24_AtMostThreeChunks ==
    (applied.op = "split_text_by_size" /\ applied.returned) =>
        /\ Len(applied.result) <= 3
        /\ \A i, j \in EmittedWindows(applied.text, applied.windows) :
              i # j => Shared(applied.windows[i], applied.windows[j]) <= applied.overlap_size

\* C29: after a window that does not reach the end of the text, the next
\* window starts at least min_chunk_size = max(chunk_size / 2, chunk_size -
\* overlap) after the start of that window, wherever the sentence
\* terminators and spaces are.
C29_NextStartAdvances ==
    (applied.op = "split_text_by_size" /\ applied.returned) =>
        \A i \in 1..(Len(applied.windows) - 1) :
            applied.windows[i + 1][1] >=
                applied.windows[i][1] + Max(applied.max_size \div 2,
                                            applied.max_size - applied.overlap_size)

\* C25: processed_urls never holds more than max_urls entries, and
\* processed_hashes and full_text_hashes never hold more than max_hashes
\* entries each.
C25_TrackingSetsBounded ==
    /\ Cardinality(self.processed_urls) <= max_urls
    /\ Cardinality(self.processed_hashes) <= max_hashes
    /\ Cardinality(self.full_text_hashes) <= max_hashes

\* C26: between batches and at the end of the run, every URL in
\* processed_urls contributed at least one chunk, or is the recorded redirect
\* target of a URL that contributed chunks, or was seen to redirect to a URL
\* already in processed_urls; a URL whose fetch failed or whose page was
\* rejected is not in the set.
C26_OnlyHandledUrlsProcessed ==
    pc \in {"loop", "done"} =>
        \A url \in self.processed_urls :
            \/ url \in Contributors
            \/ \E u \in Contributors :
                  u \in DOMAIN self.redirected_urls /\ self.redirected_urls[u] = url
            \/ \E hit \in observed : hit[1] = url

\* C28: cleaning is idempotent: clean_content applied to what clean_content
\* returned gives it back unchanged.
C28_CleaningIdempotent ==
    (applied.op = "clean_content" /\ applied.returned) => applied.again = applied.result

\* C27: the parts extract_content records for a page differ from one another
\* after lower-casing and whitespace normalisation, and a page of five
\* blocks with identical text gives exactly one character chunk.
C27_IdenticalBlocksOneChunk ==
    (applied.op = "extract_content" /\ applied.returned) =>
        /\ \A i, j \in DOMAIN applied.parts :
              i # j => CollapseWs(Strip(Lower(applied.parts[i])))
                          # CollapseWs(Strip(Lower(applied.parts[j])))
        /\ (/\ Len(applied.page) = 5
            /\ \A i \in DOMAIN applied.page : applied.page[i].text = applied.page[1].text)
               => Len(applied.char_docs) = 1

\* C30: during one call of fetch_url_async at most 3 plain GET attempts and
\* at most 3 render navigation attempts are made, whatever the server
\* answers.
C30_AttemptsBounded ==
    applied.op = "fetch_url_async" => (applied.gets <= 3 /\ applied.gotos <= 3)

\* C31: at most one browser is launched during a run, whatever the
\* interleaving of the render calls that find self.browser unset.
C31_OneBrowserLaunched == browser.launched <= 1

\* C34: every browser context created by a render attempt is closed before
\* that attempt ends: while the run has not closed its browser, the open
\* contexts are those of the attempts that are navigating or reading their
\* page.
C34_ContextClosedWithAttempt ==
    ~browser.shutdown =>
        contexts <= Cardinality({url \in RenderUrls : js_calls[url].pc \in {"goto", "content"}})

\* C32: no HTTP session serves more than 50 GET requests (here
\* max_session_requests): a session on which that many requests have been
\* sent is replaced before the next request.
C32_SessionServesAtMostLimit ==
    \A id \in DOMAIN session.sent : session.sent[id] <= max_session_requests

\* C38: a session is never closed while a call of fetch_simple is between
\* obtaining it from create_session and the end of its request.
C38_NoSessionClosedInUse ==
    \A t \in Fetchers :
        fetchers[t].pc \in {"sleep", "get"} => fetchers[t].session \notin session.closed

\* C33: every write a fetch or processing task makes to redirected_urls,
\* error_urls or processed_urls happens while the task holds url_lock.
C33_WritesUnderUrlLock == applied.op = "fetch_url_async" => applied.unlocked = {}

\* the chunks of a result that come from the sections of the given level:
\* 1 for Pass 1, 2 for Pass 2 under <h2>, 0 for Pass 3
OfLevel(docs, level) == {i \in DOMAIN docs : docs[i].metadata.section_level = level}

\* C35: a page the structural chunker detects as a login or error page gives
\* no structural chunk; when Pass 1 emitted a chunk the result holds nothing
\* of Pass 2 or Pass 3, and when Pass 2 emitted a chunk it holds nothing of
\* Pass 3.
C35_PassesInTurn ==
    (applied.op = "create_structure_based_chunks" /\ applied.returned) =>
        /\ applied.page.pruned_rejected => applied.result = << >>
        /\ OfLevel(applied.result, 1) # {} =>
              OfLevel(applied.result, 2) \cup OfLevel(applied.result, 0) = {}
        /\ OfLevel(applied.result, 2) # {} => OfLevel(applied.result, 0) = {}

\* Pass 1 emitted a chunk for a page whose Pass 2 section and body would
\* give chunks as well
C35_Witness ==
    /\ applied.op = "create_structure_based_chunks" /\ applied.returned
    /\ OfLevel(applied.result, 1) # {}
    /\ applied.page.body_text # ""
    /\ \E i \in DOMAIN applied.page.pass2 : applied.page.pass2[i].cleaned # ""

\* the first selector of the list, from the i-th on, that matches an element
RECURSIVE FirstMatching(_, _)
FirstMatching(soup, i) ==
    IF i > Len(main_content_selectors) THEN None
    ELSE IF main_content_selectors[i] \in soup.matched THEN main_content_selectors[i]
    ELSE FirstMatching(soup, i + 1)

\* C36: the main-content node is the match of the first selector of the list
\* that matches anything in the document; when no selector matches it is
\* the body, and the document root when there is no body.
C36_FirstSelectorWins ==
    (applied.op = "main_content" /\ applied.returned) =>
        applied.result =
            IF applied.soup.matched # {} THEN FirstMatching(applied.soup, 1)
            ELSE IF applied.soup.body THEN "body" ELSE "document"

\* the first of the four sources that is present
FirstPresent(soup) ==
    IF soup.lang # None THEN soup.lang
    ELSE IF soup.xml_lang # None THEN soup.xml_lang
    ELSE IF soup.content_language # None THEN soup.content_language
    ELSE soup.og_locale

\* C37: detect_language answers de for a URL ending in _ger.html; else what
\* the detector answers for a sample of 50 characters or more (when the
\* detector raises, the sources below decide); else the two-letter prefix
\* of the first present of html lang, xml:lang, content-language and
\* og:locale, for de-DE and de_DE alike; else en.
C37_LanguagePrecedence ==
    (applied.op = "detect_language" /\ applied.returned) =>
        applied.result =
            IF applied.url # None /\ EndsWith(applied.url, "_ger.html") THEN "de"
            ELSE IF Len(applied.text_sample) >= 50 /\ applied.detect # "raise"
            THEN applied.detect
            ELSE IF FirstPresent(applied.soup) # None
            THEN Lower(Slice(FirstPresent(applied.soup), 0, 2))
            ELSE "en"

\* C39: for every chunk size of 1 or more and every overlap of 0 or more,
\* a round of the splitting loop that does not end the loop leaves a window
\* start greater than the one it began with, so the loop ends.
C39_WindowStartIncreases ==
    (applied.op = "split_loop" /\ applied.pc = "loop" /\ applied.rounds > 0) =>
        applied.start > applied.last_start

\* C40: resolve_final returns on every redirect map, cycles and self-loops
\* included, and what it returns for a URL is what it returns for that URL
\* and that map with an empty cache, whatever calls came before.
C40_ResultOfUrlAndMapOnly ==
    (applied.op = "resolve_final" /\ applied.u # None) =>
        applied.returned = resolve_final(applied.u, applied.redir_map, << >>).returned

====
